---- MODULE Spec2Model ----
(***************************************************************************)
(* A model of the ray tracer's core: the SAH bounding volume hierarchy     *)
(* (src/src/bvh.rs), the ray/figure intersection layer                     *)
(* (src/src/objects/geometry.rs), the path integrator (src/src/trace.rs)   *)
(* and the light-direction density (src/src/random.rs).                    *)
(*                                                                         *)
(* Numbers.  The program computes in f32.  The model computes in the       *)
(* integers extended with +INF, -INF and NaN, with the IEEE rules for      *)
(* them (x/0, 0/0, inf-inf, 0*inf, comparisons with NaN are false, and     *)
(* f32::min / f32::max return the other operand when one is NaN).  All     *)
(* scene coordinates are even integers and every ray direction is one of   *)
(* the six axis directions, so every finite value the code computes on     *)
(* these inputs is an integer and the model's arithmetic is the code's     *)
(* arithmetic, exactly.  EPS (1e-4 in the code) is one model unit: smaller *)
(* than every extent of every object of the model, which are all >= 2.     *)
(* A zero direction component is +0.0 (the model has no -0.0).             *)
(***************************************************************************)
EXTENDS Integers, Sequences, FiniteSets, TLC

VARIABLES
  pc,          \* where the program is
  input,       \* the arguments of the operation under study
  answer,      \* what the operation returned
  bvh,         \* the Bvh that Bvh::new built
  query,       \* the ray of the last bvh.intersect
  scene,       \* the Scene of the render
  parameters,  \* its Parameters
  cur,         \* the invocation of trace_ray that runs, or that just returned
  stack,       \* the invocations that wait for a trace_ray call to return
  ret,         \* the colour the last return handed back
  builder,     \* the SceneBuilder the glTF loader fills
  walk         \* the loader's walk over the glTF nodes

bvhVars == <<bvh, query>>
traceVars == <<scene, parameters, cur, stack, ret>>
parseVars == <<builder, walk>>
vars == <<pc, input, answer, bvhVars, traceVars, parseVars>>

(***************************************************************************)
(* f32 values                                                              *)
(***************************************************************************)
INF == 1000000
NaN == 2 * INF

IsNaN(x) == x = NaN
IsInf(x) == x = INF \/ x = -INF
\* every finite value lies strictly between -INF and INF, and NaN above INF
IsFinite(x) == -INF < x /\ x < INF

FNeg(x) == IF IsNaN(x) THEN NaN ELSE -x

FAdd(a, b) ==
  IF IsFinite(a) /\ IsFinite(b) THEN a + b
  ELSE IF IsNaN(a) \/ IsNaN(b) THEN NaN
  ELSE IF IsInf(a) THEN (IF IsInf(b) /\ b # a THEN NaN ELSE a)
  ELSE IF IsInf(b) THEN b
  ELSE a + b

FSub(a, b) == FAdd(a, FNeg(b))

Sign(x) == IF x > 0 THEN 1 ELSE IF x < 0 THEN -1 ELSE 0

FMul(a, b) ==
  IF IsFinite(a) /\ IsFinite(b) THEN a * b
  ELSE IF IsNaN(a) \/ IsNaN(b) THEN NaN
  ELSE IF a = 0 \/ b = 0 THEN NaN
  ELSE Sign(a) * Sign(b) * INF

\* a / b.  A finite quotient is exact on the model's inputs (b is 1, -1 or 2
\* and divides a).
FDiv(a, b) ==
  IF b = 1 /\ IsFinite(a) THEN a
  ELSE IF IsNaN(a) \/ IsNaN(b) THEN NaN
  ELSE IF IsInf(a) THEN (IF IsInf(b) THEN NaN
                         ELSE IF b < 0 THEN -a ELSE a)
  ELSE IF IsInf(b) THEN 0
  ELSE IF b = 0 THEN (IF a = 0 THEN NaN ELSE Sign(a) * INF)
  ELSE Sign(a) * Sign(b) * ((Sign(a) * a) \div (Sign(b) * b))

FLt(a, b) == a < b /\ ~IsNaN(a) /\ ~IsNaN(b)
FLe(a, b) == a <= b /\ ~IsNaN(a) /\ ~IsNaN(b)
FGt(a, b) == FLt(b, a)
FGe(a, b) == FLe(b, a)

\* f32::min and f32::max ignore a NaN operand.
FMin(a, b) == IF IsNaN(a) THEN b ELSE IF IsNaN(b) THEN a
              ELSE IF a < b THEN a ELSE b
FMax(a, b) == IF IsNaN(a) THEN b ELSE IF IsNaN(b) THEN a
              ELSE IF a > b THEN a ELSE b

FAbs(x) == IF IsNaN(x) THEN NaN ELSE IF x < 0 THEN -x ELSE x

(***************************************************************************)
(* Vec3 and the rotations                                                  *)
(***************************************************************************)
Axes == 1..3

Zeros == <<0, 0, 0>>
VAdd(u, v) == <<FAdd(u[1], v[1]), FAdd(u[2], v[2]), FAdd(u[3], v[3])>>
VSub(u, v) == <<FSub(u[1], v[1]), FSub(u[2], v[2]), FSub(u[3], v[3])>>
VNeg(u) == <<FNeg(u[1]), FNeg(u[2]), FNeg(u[3])>>
VScale(k, u) == <<FMul(k, u[1]), FMul(k, u[2]), FMul(k, u[3])>>
VHalf(u) == <<FDiv(u[1], 2), FDiv(u[2], 2), FDiv(u[3], 2)>>
VDiv(u, v) == <<FDiv(u[1], v[1]), FDiv(u[2], v[2]), FDiv(u[3], v[3])>>
VMin(u, v) == <<FMin(u[1], v[1]), FMin(u[2], v[2]), FMin(u[3], v[3])>>
VMax(u, v) == <<FMax(u[1], v[1]), FMax(u[2], v[2]), FMax(u[3], v[3])>>
Dot(u, v) == FAdd(FAdd(FMul(u[1], v[1]), FMul(u[2], v[2])), FMul(u[3], v[3]))
Cross(u, v) == << u[2] * v[3] - u[3] * v[2],
                  u[3] * v[1] - u[1] * v[3],
                  u[1] * v[2] - u[2] * v[1] >>
Length2(u) == Dot(u, u)

\* v.normalize() of a vector along one axis; the zero vector (and a vector
\* holding a NaN) normalizes to NaNs.
Normalize(u) ==
  IF (\E i \in Axes : IsNaN(u[i])) \/ u = Zeros THEN <<NaN, NaN, NaN>>
  ELSE <<Sign(u[1]), Sign(u[2]), Sign(u[3])>>

\* A rotation is kept as its matrix (three rows); the rotations of the model
\* map axes to axes, so the inverse is the transpose.
MatVec(R, v) == <<Dot(R[1], v), Dot(R[2], v), Dot(R[3], v)>>
Transpose(R) == << <<R[1][1], R[2][1], R[3][1]>>, <<R[1][2], R[2][2], R[3][2]>>,
                   <<R[1][3], R[2][3], R[3][3]>> >>

RotId == << <<1, 0, 0>>, <<0, 1, 0>>, <<0, 0, 1>> >>
\* a quarter turn about y: x -> -z, z -> x
RotY == << <<0, 0, 1>>, <<0, 1, 0>>, <<-1, 0, 0>> >>

(***************************************************************************)
(* Ray (src/src/ray.rs)                                                    *)
(***************************************************************************)
EPS == 1

RayNew(origin, direction) ==
  [origin |-> origin, direction |-> Normalize(direction)]

RayNewShifted(origin, direction) ==
  LET d == Normalize(direction)
  IN  [origin |-> VAdd(origin, VScale(EPS, d)), direction |-> d]

RayAt(ray, t) == VAdd(ray.origin, VScale(t, ray.direction))

None == <<>>
Some(x) == <<x>>
IsSome(o) == o # <<>>
Unwrap(o) == o[1]

(***************************************************************************)
(* Aabb (src/src/objects/geometry.rs)                                      *)
(***************************************************************************)
AabbUpdate(min, max) ==
  [min |-> min, max |-> max,
   center |-> VHalf(VAdd(min, max)),
   sizes |-> VHalf(VSub(max, min))]

AabbEmpty ==
  [min |-> <<INF, INF, INF>>, max |-> <<-INF, -INF, -INF>>,
   sizes |-> <<-INF, -INF, -INF>>, center |-> Zeros]

AabbAddPoint(self, p) ==
  AabbUpdate(VMin(self.min, p), VMax(self.max, p))

AabbExtend(self, other) ==
  AabbUpdate(VMin(self.min, other.min), VMax(self.max, other.max))

AabbArea(self) ==
  LET s == VSub(self.max, self.min)
  IN  FAdd(FAdd(FMul(s[1], s[2]), FMul(s[2], s[3])), FMul(s[3], s[1]))

\* The slab test: the entry distance, INF for a miss.
SlabA(self, ray, i) ==
  FDiv(FSub(self.sizes[i], FSub(ray.origin[i], self.center[i])), ray.direction[i])
SlabB(self, ray, i) ==
  FNeg(FDiv(FAdd(self.sizes[i], FSub(ray.origin[i], self.center[i])), ray.direction[i]))

SlabTest(l, r) == IF FGt(l, r) THEN INF ELSE l

SlabRange(lo, hi) ==
  SlabTest(FMax(FMax(FMax(-INF, lo[1]), lo[2]), lo[3]),
           FMin(FMin(FMin(INF, hi[1]), hi[2]), hi[3]))

Slabs(a, b) == SlabRange(VMin(a, b), VMax(a, b))

AabbIntersect(self, ray) ==
  Slabs(<<SlabA(self, ray, 1), SlabA(self, ray, 2), SlabA(self, ray, 3)>>,
        <<SlabB(self, ray, 1), SlabB(self, ray, 2), SlabB(self, ray, 3)>>)

\* Vec3 <= Vec3 holds when it holds in every component.
AabbContains(self, other) ==
  /\ \A i \in Axes : FLe(self.min[i], other.min[i])
  /\ \A i \in Axes : FLe(other.max[i], self.max[i])

CubeVertices(minv, maxv) ==
  [k \in 1..8 |->
     [j \in Axes |-> IF ((k - 1) \div (2 ^ (j - 1))) % 2 = 0
                     THEN minv[j] ELSE maxv[j]]]

RECURSIVE AddPoints(_, _, _)
AddPoints(aabb, pts, k) ==
  IF k > Len(pts) THEN aabb
  ELSE AddPoints(AabbAddPoint(aabb, pts[k]), pts, k + 1)

(***************************************************************************)
(* Figures (src/src/objects/figures.rs) and their intersections            *)
(* (src/src/objects/geometry.rs).  A positioned figure is a record         *)
(*   [kind, position, rotation, normal, sizes, v, edge1, edge2,            *)
(*    material_idx]                                                        *)
(* of which a plane reads normal, a box sizes and a triangle v, edge1,     *)
(* edge2; material_idx is the material of the primitive that holds the     *)
(* figure.  The model holds no ellipsoid: its hit distance is a square     *)
(* root, which only the rays through its centre make an integer.           *)
(***************************************************************************)
Plane(normal, position, rotation) ==
  [kind |-> "plane", position |-> position, rotation |-> rotation,
   normal |-> normal, sizes |-> Zeros, v |-> Zeros, edge1 |-> Zeros,
   edge2 |-> Zeros, material_idx |-> 0]

Box(sizes, position, rotation) ==
  [kind |-> "box", position |-> position, rotation |-> rotation,
   normal |-> Zeros, sizes |-> sizes, v |-> Zeros, edge1 |-> Zeros,
   edge2 |-> Zeros, material_idx |-> 0]

\* Triangle::new(v1, v2, v3) inside PositionedFigure::new's defaults.
Triangle(v1, v2, v3) ==
  [kind |-> "tri", position |-> Zeros, rotation |-> RotId,
   normal |-> Zeros, sizes |-> Zeros, v |-> v1, edge1 |-> VSub(v2, v1),
   edge2 |-> VSub(v3, v1), material_idx |-> 0]

TriangleNormal(fig) == Normalize(Cross(fig.edge1, fig.edge2))

Hit(t, n, is_inside) == [t |-> t, n |-> n, is_inside |-> is_inside]

PlaneIntersect(fig, ray) ==
  LET t == FDiv(FNeg(Dot(ray.origin, fig.normal)), Dot(ray.direction, fig.normal))
      is_inside == FLt(Dot(fig.normal, ray.origin), 0)
  IN  IF FLt(t, 0) THEN None ELSE Some(Hit(t, fig.normal, is_inside))

\* First index of the largest component, as nalgebra's argmax.
ArgMax3(a) ==
  IF a[1] >= a[2] /\ a[1] >= a[3] THEN 1
  ELSE IF a[2] >= a[3] THEN 2 ELSE 3

\* t1 and t2 to the t of the hit, None for a miss
BoxPick(t1, t2) ==
  IF FGt(t1, t2) THEN None
  ELSE IF FGe(t1, 0) THEN Some(t1)
  ELSE IF FGe(t2, 0) THEN Some(t2)
  ELSE None

\* l and r after the loop that swaps l[i] and r[i] when l[i] > r[i]
SwappedL(l, r) ==
  <<IF FGt(l[1], r[1]) THEN r[1] ELSE l[1], IF FGt(l[2], r[2]) THEN r[2] ELSE l[2],
    IF FGt(l[3], r[3]) THEN r[3] ELSE l[3]>>
SwappedR(l, r) ==
  <<IF FGt(l[1], r[1]) THEN l[1] ELSE r[1], IF FGt(l[2], r[2]) THEN l[2] ELSE r[2],
    IF FGt(l[3], r[3]) THEN l[3] ELSE r[3]>>

BoxRange(l, r) ==
  BoxPick(FMax(FMax(l[1], l[2]), l[3]), FMin(FMin(r[1], r[2]), r[3]))

BoxSlabs(l, r) == BoxRange(SwappedL(l, r), SwappedR(l, r))

BoxT(fig, ray) ==
  BoxSlabs(VDiv(VSub(fig.sizes, ray.origin), ray.direction),
           VDiv(VSub(VNeg(fig.sizes), ray.origin), ray.direction))

\* Parallelipiped::intersect_checked with check_neg_t = true.  The normal is
\* the hit point divided by the sizes with all but its largest component
\* zeroed; |p[i]| * s[j] * s[k] orders the components |p[i] / s[i]|.
BoxNormalAt(i, q) ==
  <<IF i = 1 THEN q[1] ELSE 0, IF i = 2 THEN q[2] ELSE 0, IF i = 3 THEN q[3] ELSE 0>>

BoxNormal(p, s) ==
  BoxNormalAt(ArgMax3(<<FAbs(p[1]) * s[2] * s[3], FAbs(p[2]) * s[1] * s[3],
                        FAbs(p[3]) * s[1] * s[2]>>),
              VDiv(p, s))

BoxHit(fig, ray, t) ==
  IF t = None THEN None
  ELSE Some(Hit(Unwrap(t), BoxNormal(RayAt(ray, Unwrap(t)), fig.sizes),
                \A j \in Axes : FAbs(ray.origin[j]) < fig.sizes[j]))

BoxIntersect(fig, ray) == BoxHit(fig, ray, BoxT(fig, ray))

Det3(a, b, c) == Dot(a, Cross(b, c))

\* TriHit without the test u + v > 1
TriHitQuadrant(det, du, dv, dt, normal, is_inside) ==
  IF det = 0 THEN None
  ELSE IF \/ Sign(det) * dt < 0
          \/ Sign(det) * du < 0
          \/ Sign(det) * dv < 0
       THEN None
  ELSE Some(Hit((Sign(det) * dt) \div (Sign(det) * det), normal, is_inside))

\* Triangle::intersect: [edge1, edge2, -D] (u, v, t) = origin - v solved by
\* Cramer's rule; try_inverse fails exactly when the determinant is zero.
\* The sign tests on u, v, u + v are made on the numerators.
TriHit(det, du, dv, dt, normal, is_inside) ==
  IF det = 0 THEN None
  ELSE IF \/ Sign(det) * dt < 0
          \/ Sign(det) * du < 0
          \/ Sign(det) * dv < 0
          \/ Sign(det) * (du + dv) > Sign(det) * det
       THEN None
  ELSE Some(Hit((Sign(det) * dt) \div (Sign(det) * det), normal, is_inside))

TriSolve(fig, ray, nd, rhs) ==
  TriHit(Det3(fig.edge1, fig.edge2, nd), Det3(rhs, fig.edge2, nd),
         Det3(fig.edge1, rhs, nd), Det3(fig.edge1, fig.edge2, rhs),
         TriangleNormal(fig), FLt(Dot(TriangleNormal(fig), ray.origin), 0))

TriIntersect(fig, ray) ==
  TriSolve(fig, ray, VNeg(ray.direction), VSub(ray.origin, fig.v))

FigureIntersect(fig, ray) ==
  CASE fig.kind = "plane" -> PlaneIntersect(fig, ray)
    [] fig.kind = "box" -> BoxIntersect(fig, ray)
    [] fig.kind = "tri" -> TriIntersect(fig, ray)

\* The normal of the figure's hit taken back to world space, before the flip.
RotatedNormal(obj, h) == Normalize(MatVec(obj.rotation, h.n))

\* OrientNormal without the flip
OrientNormalKept(n, direction) == n

OrientNormal(n, direction) == IF FGt(Dot(n, direction), 0) THEN VNeg(n) ELSE n

\* The ray in the figure's own frame: rotation.inverse() applied to the
\* origin less the position and to the direction.
LocalRay(obj, ray) ==
  LET rinv == Transpose(obj.rotation)
  IN  [origin |-> MatVec(rinv, VSub(ray.origin, obj.position)),
       direction |-> MatVec(rinv, ray.direction)]

\* impl Geometry for PositionedFigure: intersect
Oriented(obj, ray, h) ==
  IF h = None THEN None
  ELSE Some([Unwrap(h) EXCEPT
               !.n = OrientNormal(RotatedNormal(obj, Unwrap(h)), ray.direction)])

Intersect(obj, ray) == Oriented(obj, ray, FigureIntersect(obj, LocalRay(obj, ray)))

FigureAabb(fig) ==
  CASE fig.kind = "plane" ->
         [min |-> <<-INF, -INF, -INF>>, max |-> <<INF, INF, INF>>,
          sizes |-> <<INF, INF, INF>>, center |-> Zeros]
    [] fig.kind = "box" ->
         AddPoints(AabbEmpty, CubeVertices(VNeg(fig.sizes), fig.sizes), 1)
    [] fig.kind = "tri" ->
         AddPoints(AabbEmpty,
                   <<fig.v, VAdd(fig.v, fig.edge1), VAdd(fig.v, fig.edge2)>>, 1)

\* impl Geometry for PositionedFigure: calc_aabb.  The corners of a plane's
\* box are infinite, rotation * v is then NaN in every component (0 * inf),
\* and add_point ignores a NaN: the positioned plane's box stays the empty
\* sentinel, with min = +INF and max = -INF.
CalcAabb(obj) ==
  LET initial == FigureAabb(obj)
      vs == CubeVertices(initial.min, initial.max)
  IN  AddPoints(AabbEmpty,
                [k \in 1..8 |-> VAdd(MatVec(obj.rotation, vs[k]), obj.position)], 1)

(***************************************************************************)
(* The objects and the rays of the model                                   *)
(***************************************************************************)
\* a cube about the origin
ObjA == Box(<<2, 2, 2>>, <<0, 0, 0>>, RotId)
\* a box of sizes (4, 2, 2) turned a quarter about y, away along x
ObjB == Box(<<4, 2, 2>>, <<8, 0, 0>>, RotY)
\* a triangle in the plane z = 6, over the cube
ObjT == Triangle(<<-2, -2, 6>>, <<2, -2, 6>>, <<-2, 2, 6>>)
\* the plane z = -4
ObjP == Plane(<<0, 0, 1>>, <<0, 0, -4>>, RotId)

\* a cube whose centre lies at x = +infinity: both bounds of its AABB on x
\* are +infinity, the size of the AABB is NaN and its key on x is infinite
ObjFar == Box(<<2, 2, 2>>, <<INF, 0, 0>>, RotId)

\* a cube away along -x
ObjC == Box(<<2, 2, 2>>, <<-8, 0, 0>>, RotId)

Figures == <<ObjA, ObjB, ObjT, ObjP, ObjFar, ObjC>>
Catalog == {ObjA, ObjB, ObjT, ObjP}
\* the objects handed to the constructions that are not queried
BuildCatalog == {ObjA, ObjT, ObjP, ObjFar}
\* objects of which some share a key on an axis that a third one is below
SplitCatalog == {ObjA, ObjB, ObjT, ObjC}

MaxObjs == 6

RECURSIVE SeqsUpTo(_, _)
SeqsUpTo(S, n) ==
  IF n = 0 THEN {<<>>}
  ELSE LET shorter == SeqsUpTo(S, n - 1)
       IN  shorter \cup {Append(q, x) : q \in {r \in shorter : Len(r) = n - 1}, x \in S}

AxisDirs == {<<1, 0, 0>>, <<-1, 0, 0>>, <<0, 1, 0>>, <<0, -1, 0>>,
             <<0, 0, 1>>, <<0, 0, -1>>}

QueryRays ==
  { RayNew(<<0, 0, -8>>, <<0, 0, 1>>),  RayNew(<<-2, 0, -8>>, <<0, 0, 1>>),
    RayNew(<<0, 0, 10>>, <<0, 0, -1>>), RayNew(<<-10, 0, 0>>, <<1, 0, 0>>),
    RayNew(<<14, 0, 0>>, <<-1, 0, 0>>), RayNew(<<0, 0, 0>>, <<1, 0, 0>>),
    RayNew(<<0, -8, 0>>, <<0, 1, 0>>),  RayNew(<<0, 0, 10>>, <<0, 0, 1>>) }

\* The figure a primitive holds (Object.geometry, Primitive.triangle).
GeometryOf(obj) == [obj EXCEPT !.material_idx = 0]

\* obj.calc_aabb(): CalcAabb of the primitive's figure, looked up in the
\* table of the boxes of the model's figures.
AabbTable ==
  <<CalcAabb(ObjA), CalcAabb(ObjB), CalcAabb(ObjT), CalcAabb(ObjP), CalcAabb(ObjFar),
    CalcAabb(ObjC)>>
ObjAabb(obj) == AabbTable[CHOOSE i \in 1..Len(Figures) : Figures[i] = GeometryOf(obj)]

(***************************************************************************)
(* Bvh (src/src/bvh.rs).  nodes is the node vector (node i of the code is  *)
(* nodes[i + 1]); objects is the object vector (object i of the code is    *)
(* objects[i + 1]); children is <<>> for None and <<left, right>> for      *)
(* Some((left, right)); every index a node holds is the code's, from 0.    *)
(***************************************************************************)
Node(aabb, children, first, last) ==
  [aabb |-> aabb, children |-> children, first_obj_idx |-> first,
   last_obj_idx |-> last]

\* itertools::partition over a slice: flags[k] is the predicate on s[k].
\* The front cursor i stops at an element that fails the predicate, the back
\* cursor j is walked down to one that passes it, and the two are swapped.
\* Returns <<the permuted slice, the split index>>.
RECURSIVE PartitionLoop(_, _, _, _)
PartitionLoop(s, flags, i, j) ==
  IF i > j THEN <<s, i - 1>>
  ELSE IF flags[i] THEN PartitionLoop(s, flags, i + 1, j)
  ELSE LET backs == {k \in (i + 1)..j : flags[k]}
       IN  IF backs = {} THEN <<s, i - 1>>
           ELSE LET b == CHOOSE k \in backs : \A m \in backs : m <= k
                IN  PartitionLoop([s EXCEPT ![i] = s[b], ![b] = s[i]],
                                  [flags EXCEPT ![i] = TRUE, ![b] = FALSE],
                                  i + 1, b - 1)

Partition(s, flags) == PartitionLoop(s, flags, 1, Len(s))

\* size.is_infinite() of Bvh::new's partition predicate
IsInfiniteSize(aabb) == IsInf(Length2(VSub(aabb.max, aabb.min)))

\* The sort key and the split key of build_node: min[axis] + max[axis].
Key(aabb, axis) == FAdd(aabb.min[axis], aabb.max[axis])

\* KeysOk that turns down NaN alone
KeysOkNotNaN(aabbs) ==
  \A k \in 1..Len(aabbs) : \A axis \in Axes : ~IsNaN(Key(aabbs[k], axis))

\* R32::try_new(key).unwrap() panics on a key that is NaN or infinite.
KeysOk(aabbs) == \A k \in 1..Len(aabbs) : \A axis \in Axes : IsFinite(Key(aabbs[k], axis))

\* The boxes a box starting empty goes through when it is extended by
\* aabbs[1], .., aabbs[k] in turn: element i + 1 is the box after i extends.
RECURSIVE Extensions(_, _)
ExtendLast(boxes, other) == Append(boxes, AabbExtend(boxes[Len(boxes)], other))

Extensions(aabbs, k) ==
  IF k = 0 THEN <<AabbEmpty>> ELSE ExtendLast(Extensions(aabbs, k - 1), aabbs[k])

Reversed(s) == [i \in 1..Len(s) |-> s[Len(s) + 1 - i]]

\* sort_by_key is a stable sort: element k goes behind the elements of a
\* smaller key and behind the earlier elements of the same key.
SortRank(s, axis, k) ==
  1 + Cardinality({j \in 1..Len(s) :
                     \/ Key(s[j], axis) < Key(s[k], axis)
                     \/ Key(s[j], axis) = Key(s[k], axis) /\ j < k})

RECURSIVE SortedFrom(_, _, _)
SortedFrom(s, axis, r) ==
  IF r > Len(s) THEN <<>>
  ELSE <<s[CHOOSE k \in 1..Len(s) : SortRank(s, axis, k) = r]>> \o
       SortedFrom(s, axis, r + 1)

SortByKey(s, axis) == SortedFrom(s, axis, 1)

\* prefix_areas[i]: 0.0 for i = 0, else the area of prefix_aabb after i
\* extends; prefix is Extensions of the sorted boxes.
PrefixArea(prefix, i) == IF i = 0 THEN 0 ELSE AabbArea(prefix[i + 1])

\* suffix_areas[i]: 0.0 for i = n, else the area of suffix_aabb after n - i
\* extends; suffix is Extensions of the sorted boxes taken from the last.
SuffixArea(suffix, i) ==
  IF i = Len(suffix) - 1 THEN 0 ELSE AabbArea(suffix[Len(suffix) - i])

\* prefix_areas[i] * i + suffix_areas[i] * (aabbs.len() - i)
Quality(prefix, suffix, i) ==
  FAdd(FMul(PrefixArea(prefix, i), i),
       FMul(SuffixArea(suffix, i), Len(suffix) - 1 - i))

RECURSIVE SplitScan(_, _, _, _, _, _)
\* one split position: the best so far is replaced when quality is below it
SplitStep(aabbs, axis, i, best, prefix, suffix, quality) ==
  IF FLt(quality, best.quality)
  THEN SplitScan(aabbs, axis, i + 1,
                 [quality |-> quality, axis |-> axis, value |-> Key(aabbs[i + 1], axis)],
                 prefix, suffix)
  ELSE SplitScan(aabbs, axis, i + 1, best, prefix, suffix)

SplitScan(aabbs, axis, i, best, prefix, suffix) ==
  IF i >= Len(aabbs) THEN best
  ELSE SplitStep(aabbs, axis, i, best, prefix, suffix, Quality(prefix, suffix, i))

\* The loop over the axes; the box list stays sorted by the previous axis
\* when the next sort starts.
RECURSIVE BestSplit(_, _, _)
SplitSorted(sorted, axis, best) ==
  BestSplit(sorted, axis + 1,
            SplitScan(sorted, axis, 0, best, Extensions(sorted, Len(sorted)),
                      Extensions(Reversed(sorted), Len(sorted))))

BestSplit(aabbs, axis, best) ==
  IF axis > 3 THEN best ELSE SplitSorted(SortByKey(aabbs, axis), axis, best)

\* NodeAabb that leaves the first box out
NodeAabbSkipFirst(aabbs) ==
  IF aabbs = <<>> THEN AabbEmpty ELSE Extensions(Tail(aabbs), Len(aabbs) - 1)[Len(aabbs)]

\* node.aabb after the loop that extends it by every box
NodeAabb(aabbs) == Extensions(aabbs, Len(aabbs))[Len(aabbs) + 1]

\* MarkTerminalNode whose range stops one object short
MarkTerminalNodeShort(node, first_idx, last_idx) ==
  [node EXCEPT !.children = <<>>, !.first_obj_idx = first_idx,
               !.last_obj_idx = IF last_idx > first_idx THEN last_idx - 1 ELSE last_idx]

MarkTerminalNode(node, first_idx, last_idx) ==
  [node EXCEPT !.children = <<>>, !.first_obj_idx = first_idx,
               !.last_obj_idx = last_idx]

SetNode(self, node_idx, node) ==
  [self EXCEPT !.nodes[node_idx + 1] = node]

MarkLeaf(self, node_idx, from_idx, to_idx) ==
  [SetNode(self, node_idx, MarkTerminalNode(self.nodes[node_idx + 1], from_idx, to_idx))
     EXCEPT !.leaves_cnt = @ + 1]

SplitFlags(objs, axis, value) ==
  [k \in 1..Len(objs) |-> FLt(Key(ObjAabb(objs[k]), axis), value)]

\* objects.iter().map(|o| o.calc_aabb()).collect()
RECURSIVE Aabbs(_)
Aabbs(objs) ==
  IF objs = <<>> THEN <<>> ELSE <<ObjAabb(Head(objs))>> \o Aabbs(Tail(objs))

RECURSIVE BuildNode(_, _, _, _)
\* Permuted that fills the slice with its first object
PermutedClobbered(self, from_idx, to_idx, part) ==
  [self EXCEPT !.objects =
     SubSeq(@, 1, from_idx) \o [k \in 1..Len(part[1]) |-> part[1][1]]
       \o SubSeq(@, to_idx + 1, Len(@))]

\* self.objects after the partition of objects[from_idx..to_idx]
Permuted(self, from_idx, to_idx, part) ==
  [self EXCEPT !.objects =
     SubSeq(@, 1, from_idx) \o part[1] \o SubSeq(@, to_idx + 1, Len(@))]

\* Grown whose new nodes start with the range [0, 1)
GrownHolding(self, node_idx, left) ==
  [self EXCEPT !.nodes = [(@ \o <<Node(AabbEmpty, <<>>, 0, 1),
                                  Node(AabbEmpty, <<>>, 0, 1)>>)
                            EXCEPT ![node_idx + 1].children = <<left, left + 1>>]]

\* the two nodes pushed for the children of node_idx
Grown(self, node_idx, left) ==
  [self EXCEPT !.nodes = [(@ \o <<Node(AabbEmpty, <<>>, 0, 0),
                                  Node(AabbEmpty, <<>>, 0, 0)>>)
                            EXCEPT ![node_idx + 1].children = <<left, left + 1>>]]

\* BuildChildren whose left child stops one object short of the split
BuildChildrenGap(self, node_idx, from_idx, to_idx, part) ==
  IF part[2] = 0 \/ part[2] = to_idx - from_idx
  THEN MarkLeaf(Permuted(self, from_idx, to_idx, part), node_idx, from_idx, to_idx)
  ELSE BuildNode(BuildNode(Grown(Permuted(self, from_idx, to_idx, part), node_idx,
                                 Len(self.nodes)),
                           Len(self.nodes), from_idx, from_idx + part[2] - 1),
                 Len(self.nodes) + 1, from_idx + part[2], to_idx)

\* build_node from the partition on: a leaf when one side is empty, else the
\* two children
BuildChildren(self, node_idx, from_idx, to_idx, part) ==
  IF part[2] = 0 \/ part[2] = to_idx - from_idx
  THEN MarkLeaf(Permuted(self, from_idx, to_idx, part), node_idx, from_idx, to_idx)
  ELSE BuildNode(BuildNode(Grown(Permuted(self, from_idx, to_idx, part), node_idx,
                                 Len(self.nodes)),
                           Len(self.nodes), from_idx, from_idx + part[2]),
                 Len(self.nodes) + 1, from_idx + part[2], to_idx)

\* build_node from the best split on
BuildSplit(self, node_idx, from_idx, to_idx, slice, best) ==
  BuildChildren(self, node_idx, from_idx, to_idx,
                Partition(slice, SplitFlags(slice, best.axis, best.value)))

\* BuildBoxed that makes a leaf of at most 2 objects only
BuildBoxedSmallLeaves(self, node_idx, from_idx, to_idx, slice, aabbs) ==
  IF to_idx - from_idx <= 2 THEN MarkLeaf(self, node_idx, from_idx, to_idx)
  ELSE IF ~KeysOk(aabbs) THEN [self EXCEPT !.panicked = TRUE]
  ELSE BuildSplit(self, node_idx, from_idx, to_idx, slice,
                  BestSplit(aabbs, 1,
                            [quality |-> FMul(AabbArea(NodeAabb(aabbs)),
                                              to_idx - from_idx),
                             axis |-> 1, value |-> INF]))

\* build_node once the node's box is set
BuildBoxed(self, node_idx, from_idx, to_idx, slice, aabbs) ==
  IF to_idx - from_idx <= 4 THEN MarkLeaf(self, node_idx, from_idx, to_idx)
  ELSE IF ~KeysOk(aabbs) THEN [self EXCEPT !.panicked = TRUE]
  ELSE BuildSplit(self, node_idx, from_idx, to_idx, slice,
                  BestSplit(aabbs, 1,
                            [quality |-> FMul(AabbArea(NodeAabb(aabbs)),
                                              to_idx - from_idx),
                             axis |-> 1, value |-> INF]))

\* build_node from the boxes of objects[from_idx..to_idx] on
BuildSlice(self, node_idx, from_idx, to_idx, slice, aabbs) ==
  BuildBoxed(SetNode(self, node_idx,
                     [self.nodes[node_idx + 1] EXCEPT !.aabb = NodeAabb(aabbs)]),
             node_idx, from_idx, to_idx, slice, aabbs)

BuildNode(self, node_idx, from_idx, to_idx) ==
  IF self.panicked THEN self
  ELSE BuildSlice(self, node_idx, from_idx, to_idx,
                  SubSeq(self.objects, from_idx + 1, to_idx),
                  Aabbs(SubSeq(self.objects, from_idx + 1, to_idx)))

\* Rooted that leaves the root's range as build_node set it
RootedAsBuilt(built) == built

\* Bvh::new once build_node has returned
Rooted(built) == [built EXCEPT !.nodes[built.root + 1].first_obj_idx = 0]

\* Bvh::new from the partition on; part[2] is last_root_idx
BvhOf(objs, part) ==
  Rooted(BuildNode([nodes |-> <<Node(AabbEmpty, <<>>, 0, part[2])>>, root |-> 0,
                    objects |-> part[1], leaves_cnt |-> 0, panicked |-> FALSE],
                   0, part[2], Len(objs)))

BvhNew(objs) ==
  BvhOf(objs, Partition(objs, [k \in 1..Len(objs) |-> IsInfiniteSize(ObjAabb(objs[k]))]))

GetObject(self, object_idx) == self.objects[object_idx + 1]
GetNObjects(self) == Len(self.objects)

\* Option<(usize, RayIntersection)> is <<>> or <<[idx, rec]>>.
BestT(best) == IF best = None THEN INF ELSE Unwrap(best).rec.t

IsCloser(one, other) == one # None /\ FLt(Unwrap(one).rec.t, BestT(other))

\* .map(|i| (idx, i))
WithIdx(idx, h) == IF h = None THEN None ELSE Some([idx |-> idx, rec |-> Unwrap(h)])

ObjHit(self, idx, ray) == WithIdx(idx, Intersect(GetObject(self, idx), ray))

Closer(new, old) == IF IsCloser(new, old) THEN new ELSE old

\* The loop of intersect_node over the node's own range.
RECURSIVE ScanRange(_, _, _, _, _)
ScanRange(self, idx, last, ray, best) ==
  IF idx >= last THEN best
  ELSE ScanRange(self, idx + 1, last, ray, Closer(ObjHit(self, idx, ray), best))

RECURSIVE IntersectNode(_, _, _, _)
\* intersect_node from the return of the first child's visit on
VisitRight(self, ray, right, right_i, intersection) ==
  IF IsInf(right_i) \/ FLt(BestT(intersection), right_i) THEN intersection
  ELSE Closer(IntersectNode(self, right, ray, intersection), intersection)

\* intersect_node from the ordering of the children on
VisitLeft(self, ray, left, right, left_i, right_i, intersection) ==
  IF IsInf(left_i) \/ FLt(BestT(intersection), left_i) THEN intersection
  ELSE VisitRight(self, ray, right, right_i,
                  Closer(IntersectNode(self, left, ray, intersection), intersection))

\* if right_i < left_i, the children and their distances are swapped
VisitOrdered(self, ray, left, right, left_i, right_i, intersection) ==
  IF FLt(right_i, left_i)
  THEN VisitLeft(self, ray, right, left, right_i, left_i, intersection)
  ELSE VisitLeft(self, ray, left, right, left_i, right_i, intersection)

\* intersect_node from the end of the loop over the node's own range on
VisitChildren(self, ray, node, intersection) ==
  IF node.children = <<>> THEN intersection
  ELSE VisitOrdered(self, ray, node.children[1], node.children[2],
                    AabbIntersect(self.nodes[node.children[1] + 1].aabb, ray),
                    AabbIntersect(self.nodes[node.children[2] + 1].aabb, ray),
                    intersection)

ScanNode(self, ray, node, best_intersection) ==
  VisitChildren(self, ray, node,
                ScanRange(self, node.first_obj_idx, node.last_obj_idx, ray,
                          best_intersection))

IntersectNode(self, node_idx, ray, best_intersection) ==
  ScanNode(self, ray, self.nodes[node_idx + 1], best_intersection)

BvhIntersect(self, ray) == IntersectNode(self, self.root, ray, None)

\* The enumerate-all traversal, as the sequence of the callback's calls, each
\* [idx, rec]; intersect_all returns the sum of the callback over them.
ShiftedPast(ray, t) ==
  [origin |-> VAdd(ray.origin, VScale(FAdd(t, EPS), ray.direction)),
   direction |-> ray.direction]

\* a call of the callback: callback(obj, ray, &intersection)
Callback(idx, ray, rec) == [idx |-> idx, ray |-> ray, rec |-> rec]

\* SecondCall that leaves the t of the second intersection as measured
\* from the shifted origin
SecondCallUnshifted(idx, ray, i1, i2) ==
  IF i2 = None THEN <<>> ELSE <<Callback(idx, ray, Unwrap(i2))>>

\* the callback's call for the second intersection, with t taken back to
\* the ray
SecondCall(idx, ray, i1, i2) ==
  IF i2 = None THEN <<>>
  ELSE <<Callback(idx, ray,
                  [Unwrap(i2) EXCEPT !.t = FAdd(@, FAdd(Unwrap(i1).t, EPS))])>>

CallsOf(obj, idx, ray, i1) ==
  IF i1 = None THEN <<>>
  ELSE <<Callback(idx, ray, Unwrap(i1))>> \o
       SecondCall(idx, ray, i1, Intersect(obj, ShiftedPast(ray, Unwrap(i1).t)))

ObjCalls(self, idx, ray) ==
  CallsOf(GetObject(self, idx), idx, ray, Intersect(GetObject(self, idx), ray))

RECURSIVE RangeCalls(_, _, _, _)
RangeCalls(self, idx, last, ray) ==
  IF idx >= last THEN <<>>
  ELSE ObjCalls(self, idx, ray) \o RangeCalls(self, idx + 1, last, ray)

RECURSIVE IntersectAllInNode(_, _, _)
IntersectAllInNode(self, node_idx, ray) ==
  LET node == self.nodes[node_idx + 1]
      own == RangeCalls(self, node.first_obj_idx, node.last_obj_idx, ray)
  IN  IF node.children = <<>> THEN own
      ELSE own \o
           (IF IsFinite(AabbIntersect(self.nodes[node.children[1] + 1].aabb, ray))
            THEN IntersectAllInNode(self, node.children[1], ray) ELSE <<>>) \o
           (IF IsFinite(AabbIntersect(self.nodes[node.children[2] + 1].aabb, ray))
            THEN IntersectAllInNode(self, node.children[2], ray) ELSE <<>>)

BvhIntersectAll(self, ray) == IntersectAllInNode(self, self.root, ray)

\* intersect_with_objects (src/src/trace.rs): the linear scan over all
\* objects, keeping the hits with t * |D| < max_dist and returning the first
\* of the nearest.
RECURSIVE LinearScan(_, _, _, _, _)
\* the minimum over the hits with t * |D| < max_dist, the first of equals
Nearer(k, h, max_dist, best) ==
  IF /\ h # None
     /\ FLt(Unwrap(h).t, max_dist)
     /\ (best = None \/ Unwrap(h).t < Unwrap(best).rec.t)
  THEN Some([idx |-> k - 1, rec |-> Unwrap(h)]) ELSE best

LinearScan(objs, k, ray, max_dist, best) ==
  IF k > Len(objs) THEN best
  ELSE LinearScan(objs, k + 1, ray, max_dist,
                  Nearer(k, Intersect(objs[k], ray), max_dist, best))

IntersectWithObjects(objs, ray, max_dist) == LinearScan(objs, 1, ray, max_dist, None)

(***************************************************************************)
(* Scene (src/src/parser.rs).  A primitive is the figure it holds with a   *)
(* material index; its intersect and calc_aabb are those of the figure it  *)
(* holds, as Object's are (src/src/objects/object.rs).  Radiance and       *)
(* colour components are integers.                                         *)
(***************************************************************************)
Material(color, emission, material_type, ior) ==
  [color |-> color, emission |-> emission, material_type |-> material_type,
   ior |-> ior]

Prim(figure, material_idx) == [figure EXCEPT !.material_idx = material_idx]

MaterialOf(materials, prim) == materials[prim.material_idx + 1]

\* Lights that copies the figure of every primitive
RECURSIVE LightsOfAll(_, _)
LightsOfAll(primitives, materials) ==
  IF primitives = <<>> THEN <<>>
  ELSE <<GeometryOf(Head(primitives))>> \o LightsOfAll(Tail(primitives), materials)

\* The lights of build_scene: a copy of the figure of every primitive whose
\* material has a non-zero emission.
RECURSIVE Lights(_, _)
Lights(primitives, materials) ==
  IF primitives = <<>> THEN <<>>
  ELSE (IF Length2(MaterialOf(materials, Head(primitives)).emission) = 0
        THEN <<>> ELSE <<GeometryOf(Head(primitives))>>)
       \o Lights(Tail(primitives), materials)

\* SceneBuilder::build_scene
BuildScene(primitives, materials) ==
  [bvh |-> BvhNew(primitives),
   lights_bvh |-> BvhNew(Lights(primitives, materials)),
   materials |-> materials]

(***************************************************************************)
(* The dielectric branch (src/src/trace.rs).  cos1, eta, ior and the       *)
(* uniform draw are rationals <<numerator, denominator>> with a positive   *)
(* denominator, compared by cross multiplication: the tests the code makes *)
(* on sin2 and on the Schlick coefficient are made on exact values.        *)
(***************************************************************************)
RLt(a, b) == a[1] * b[2] < b[1] * a[2]

\* eta = if is_inside { ior } else { 1.0 / ior }
Eta(is_inside, ior) == IF is_inside THEN ior ELSE <<ior[2], ior[1]>>

\* (eta * (1 - cos1 * cos1).sqrt())^2
Sin2Sq(eta, cos1) ==
  <<eta[1] * eta[1] * (cos1[2] * cos1[2] - cos1[1] * cos1[1]),
    eta[2] * eta[2] * cos1[2] * cos1[2]>>

\* get_refracted_ray(..).is_some(): the ray is None exactly when
\* sin2.abs() > 1.0.  The square root of a negative number is NaN, and no
\* comparison with NaN holds.
RefractionValid(eta, cos1) ==
  IF cos1[1] * cos1[1] > cos1[2] * cos1[2] THEN TRUE
  ELSE ~RLt(<<1, 1>>, Sin2Sq(eta, cos1))

\* schilcks_coeff(eta, cos) = r0 + (1 - r0) * (1 - cos)^5,
\* r0 = ((eta - 1) / (eta + 1))^2
SchilcksCoeff(eta, cos) ==
  LET r0n == (eta[1] - eta[2]) * (eta[1] - eta[2])
      r0d == (eta[1] + eta[2]) * (eta[1] + eta[2])
      xn == (cos[2] - cos[1]) ^ 5
      xd == cos[2] ^ 5
  IN  <<r0n * xd + (r0d - r0n) * xn, r0d * xd>>

\* Refracts without the draw: every valid refraction is taken
RefractsWhenValid(is_inside, ior, cos1, u) ==
  RefractionValid(Eta(is_inside, ior), cos1)

\* The condition of calc_dielectric_color's if: the refracted ray exists and
\* the draw u is below 1 - coeff.
Refracts(is_inside, ior, cos1, u) ==
  LET eta == Eta(is_inside, ior)
      coeff == SchilcksCoeff(eta, cos1)
  IN  RefractionValid(eta, cos1) /\ RLt(u, <<coeff[2] - coeff[1], coeff[2]>>)

\* get_reflected_ray
GetReflectedRay(direction, point, normal) ==
  RayNewShifted(point,
                VSub(direction, VScale(FMul(2, Dot(direction, normal)), normal)))

\* get_refracted_ray at a hit whose normal lies along the ray (sin2 = 0 and
\* cos2 = 1): new_dir = eta * D + (eta * cos1 - 1) * n, taken times the
\* denominator of eta, which new_shifted's normalize undoes.
GetRefractedRay(direction, point, normal, eta) ==
  LET cos1 == -Dot(normal, direction)
  IN  RayNewShifted(point,
                    VAdd(VScale(eta[1], direction),
                         VScale(eta[1] * cos1 - eta[2], normal)))

(***************************************************************************)
(* trace_ray (src/src/trace.rs).  An invocation is [ray, depth, queried];  *)
(* queried tells whether it has asked scene.bvh for an intersection.  An   *)
(* invocation that recurses leaves a frame on the stack: itself, the hit   *)
(* it found, the branch it took and what the branch computed.  The         *)
(* direction a Diffuse hit samples and the density of that direction come  *)
(* from the MIS distribution; the density is m / (2 PI) for the m drawn,   *)
(* or is not finite.                                                       *)
(***************************************************************************)
\* sample: the direction and the pdf the invocation drew at a Diffuse hit;
\* calls: the invocations of trace_ray begun so far for the primary ray, this
\* one included
Call(ray, depth) ==
  [ray |-> ray, depth |-> depth, queried |-> FALSE, sample |-> <<>>, calls |-> 1]

Frame(call, hit, branch, new_dir, pdf) ==
  [call |-> [call EXCEPT !.queried = TRUE], hit |-> hit, branch |-> branch,
   new_dir |-> new_dir, pdf |-> pdf]

CMul(a, b) == <<a[1] * b[1], a[2] * b[2], a[3] * b[3]>>

\* AtDepthCap that lets the depth ray_depth through
AtDepthCapLate(params, call) == call.depth > params.ray_depth

\* depth >= parameters.ray_depth
AtDepthCap(params, call) == call.depth >= params.ray_depth

\* DepthCapColor that returns the background
DepthCapBackground(params) == params.background_color

\* return Vec3::zeros()
DepthCapColor(params) == Zeros

\* MissColor that returns black
MissBlack(params) == Zeros

\* return parameters.background_color
MissColor(params) == params.background_color

HitMaterial(scn, hit) == MaterialOf(scn.materials, GetObject(scn.bvh, hit.idx))

HitPoint(call, hit) == RayAt(call.ray, hit.rec.t)

\* PdfUnusable that lets an infinite pdf through
PdfUnusableFinite(pdf) == IsNaN(pdf) \/ pdf < 1

\* !pdf.is_finite() || pdf < 1e-6: every density below the unit counts as
\* below 1e-6
PdfUnusable(pdf) == ~IsFinite(pdf) \/ pdf < 1

\* color_in.component_mul(&color_obj) * cos / pdf with color_obj = color / PI
\* and pdf = m / (2 PI)
DiffuseColor(material, color_in, cos, pdf) ==
  LET c == CMul(color_in, material.color)
  IN  <<(c[1] * cos * 2) \div pdf, (c[2] * cos * 2) \div pdf,
        (c[3] * cos * 2) \div pdf>>

\* MetallicColor without the material's colour
MetallicColorUnscaled(material, color) == color

\* color.component_mul(&material.color)
MetallicColor(material, color) == CMul(color, material.color)

\* DielectricColor that applies the material's colour on every path
DielectricColorAlways(material, color, refracted, is_inside) ==
  CMul(color, material.color)

\* The colour of calc_dielectric_color from the colour its one trace_ray call
\* returned.
DielectricColor(material, color, refracted, is_inside) ==
  IF refracted /\ ~is_inside THEN CMul(color, material.color) ELSE color

\* What an invocation returns once the invocation it made has returned
\* color: the colour of the material's arm, plus emitted.
Continue(scn, frame, color) ==
  LET material == HitMaterial(scn, frame.hit)
      arm == CASE frame.branch = "diffuse" ->
                    DiffuseColor(material, color,
                                 Dot(frame.hit.rec.n, frame.new_dir), frame.pdf)
               [] frame.branch = "metallic" -> MetallicColor(material, color)
               [] frame.branch = "refracted" ->
                    DielectricColor(material, color, TRUE, frame.hit.rec.is_inside)
               [] frame.branch = "reflected" ->
                    DielectricColor(material, color, FALSE, frame.hit.rec.is_inside)
  IN  VAdd(arm, material.emission)

(***************************************************************************)
(* ToLigth::pdf and Uniform::pdf (src/src/random.rs), with the area        *)
(* densities of src/src/objects/sample.rs.  A density is                   *)
(* [num, den, per_pi]: num / den, divided by PI when per_pi holds.         *)
(***************************************************************************)
RECURSIVE Gcd(_, _)
Gcd(a, b) == IF b = 0 THEN a ELSE Gcd(b, a % b)

Reduced(r) == LET g == Gcd(r[1], r[2]) IN IF g = 0 THEN r ELSE <<r[1] \div g, r[2] \div g>>

RAdd(a, b) == Reduced(<<a[1] * b[2] + b[1] * a[2], a[2] * b[2]>>)

\* Uniform::pdf that returns zero
UniformPdfZero(n, d) == [num |-> 0, den |-> 1, per_pi |-> TRUE]

\* Uniform::pdf: 0.5 / PI
UniformPdf(n, d) == [num |-> 1, den |-> 2, per_pi |-> TRUE]

\* The length of a vector that lies along one axis.
AxisLength(u) == FAbs(u[1]) + FAbs(u[2]) + FAbs(u[3])

\* Sample::pdf of a positioned figure: inv_area = 1 / (|edge1 x edge2| / 2)
\* of a triangle, 1 / (8 (ab + bc + ac)) of a box.
ObjPdf(obj) ==
  CASE obj.kind = "tri" -> <<2, AxisLength(Cross(obj.edge1, obj.edge2))>>
    [] obj.kind = "box" ->
         <<1, 8 * (obj.sizes[1] * obj.sizes[2] + obj.sizes[2] * obj.sizes[3]
                   + obj.sizes[1] * obj.sizes[3])>>

\* obj.pdf(q) * length2(p - q) / dot(direction, n).abs(), and whether it is
\* finite.
PdfTerm(obj, p, q, direction, n) ==
  <<ObjPdf(obj)[1] * Length2(VSub(p, q)), ObjPdf(obj)[2] * FAbs(Dot(direction, n))>>

TermFinite(term) == term[2] # 0 /\ IsFinite(term[1])

\* The body of the loop over the lights: the terms one light adds to pdf.
FiniteTerm(term) == IF TermFinite(term) THEN <<term>> ELSE <<>>

UnwrapOr(opt, default) == IF opt = None THEN default ELSE Unwrap(opt)

\* pdf1 and pdf2
BothTerms(obj, p, ray, i1, ray2, i2) ==
  FiniteTerm(PdfTerm(obj, p, RayAt(ray, i1.t), ray.direction, i1.n)) \o
  FiniteTerm(PdfTerm(obj, p, RayAt(ray2, i2.t), ray.direction, i2.n))

SecondCrossing(obj, p, ray, i1, ray2) ==
  BothTerms(obj, p, ray, i1, ray2, UnwrapOr(Intersect(obj, ray2), i1))

FirstCrossing(obj, p, ray, i1) ==
  IF i1 = None THEN <<>>
  ELSE SecondCrossing(obj, p, ray, Unwrap(i1),
                      RayNewShifted(RayAt(ray, Unwrap(i1).t), ray.direction))

LightTerms(obj, p, ray) == FirstCrossing(obj, p, ray, Intersect(obj, ray))

RECURSIVE AllTerms(_, _, _)
AllTerms(lights, p, ray) ==
  IF lights = <<>> THEN <<>>
  ELSE <<LightTerms(Head(lights), p, ray)>> \o AllTerms(Tail(lights), p, ray)

RECURSIVE RSum(_)
RSum(terms) == IF terms = <<>> THEN <<0, 1>> ELSE RAdd(Head(terms), RSum(Tail(terms)))

RECURSIVE Flatten(_)
Flatten(seqs) == IF seqs = <<>> THEN <<>> ELSE Head(seqs) \o Flatten(Tail(seqs))

\* ToLigth::pdf
\* pdf /= self.lights.len() as f32
Averaged(sum, n) ==
  [num |-> Reduced(<<sum[1], sum[2] * n>>)[1],
   den |-> Reduced(<<sum[1], sum[2] * n>>)[2], per_pi |-> FALSE]

ToLigthPdf(lights, p, n, d) ==
  IF lights = <<>> THEN UniformPdf(n, d)
  ELSE Averaged(RSum(Flatten(AllTerms(lights, p, RayNew(p, d)))), Len(lights))

(***************************************************************************)
(* The inputs of the model                                                 *)
(***************************************************************************)
\* materials: 0 a white diffuse surface, 1 a white mirror, 2 a tinted mirror
\* that emits, 3 tinted glass that emits, 4 a diffuse light
Materials ==
  << Material(<<1, 1, 1>>, Zeros, "Diffuse", <<1, 1>>),
     Material(<<1, 1, 1>>, Zeros, "Metallic", <<1, 1>>),
     Material(<<1, 0, 2>>, <<1, 1, 0>>, "Metallic", <<1, 1>>),
     Material(<<2, 1, 1>>, <<0, 1, 0>>, "Dielectric", <<3, 2>>),
     Material(<<1, 1, 1>>, <<4, 4, 4>>, "Diffuse", <<1, 1>>) >>

TracePrims ==
  { Prim(ObjA, 1), Prim(ObjA, 3), Prim(ObjB, 2), Prim(ObjB, 0), Prim(ObjT, 4),
    Prim(ObjP, 0) }

MaxPrims == 2
MaxDepth == 3

Background == <<1, 2, 3>>

PrimaryRays ==
  { RayNew(<<0, 0, -8>>, <<0, 0, 1>>), RayNew(<<4, 0, 0>>, <<-1, 0, 0>>),
    RayNew(<<4, 0, 0>>, <<1, 0, 0>>), RayNew(<<0, 0, 10>>, <<0, 0, -1>>) }

\* the densities MIS hands to a Diffuse hit, in units of 1 / (2 PI)
PdfDraws == {-1, 0, 1, 2, INF, NaN}

\* the uniform draws of rng.gen::<f32>(), in [0, 1)
UDraws == {<<0, 100>>, <<50, 100>>, <<95, 100>>, <<96, 100>>, <<99, 100>>}

CosDraws == {<<-3, 5>>, <<0, 1>>, <<3, 5>>, <<4, 5>>, <<1, 1>>}
IorDraws == {<<3, 2>>, <<2, 1>>, <<1, 1>>}

LightCatalog == {ObjA, ObjB, ObjT}
MaxLights == 2
PdfPoints == {<<0, 0, 0>>, <<0, 0, -8>>, <<8, 0, -8>>, <<-10, 0, 0>>}

(***************************************************************************)
(* Actions                                                                 *)
(***************************************************************************)
NoBvh == [nodes |-> <<>>, root |-> 0, objects |-> <<>>, leaves_cnt |-> 0,
          panicked |-> FALSE]
NoRay == [origin |-> Zeros, direction |-> Zeros]
NoScene == [bvh |-> NoBvh, lights_bvh |-> NoBvh, materials |-> <<>>]
NoParameters == [ray_depth |-> 0, background_color |-> Zeros]

\* SceneBuilder::default(), and no walk
NoBuilder == [camera |-> <<>>]
NoWalk == [node_idx |-> 0, pending |-> <<>>, visited |-> <<>>]

BvhIdle == bvh = NoBvh /\ query = NoRay
ParseIdle == builder = NoBuilder /\ walk = NoWalk
TraceIdle ==
  /\ scene = NoScene
  /\ parameters = NoParameters
  /\ cur = Call(NoRay, 0)
  /\ stack = <<>>
  /\ ret = Zeros

Init ==
  /\ pc = "input"
  /\ input \in SeqsUpTo(Catalog, MaxObjs)
  /\ answer = None
  /\ BvhIdle
  /\ ParseIdle
  /\ TraceIdle

\* Bvh::new(objects)
New ==
  /\ pc = "input"
  /\ bvh' = BvhNew(input)
  /\ pc' = IF bvh'.panicked THEN "panicked" ELSE "built"
  /\ UNCHANGED <<input, query, answer, traceVars, parseVars>>

\* bvh.intersect(ray)
BvhQuery(r) ==
  /\ pc = "built"
  /\ query' = r
  /\ answer' = BvhIntersect(bvh, r)
  /\ pc' = "queried"
  /\ UNCHANGED <<input, bvh, traceVars, parseVars>>

Next ==
  \/ New
  \/ \E r \in QueryRays : BvhQuery(r)

Spec == Init /\ [][Next]_vars

(***************************************************************************)
(* Bvh::new followed by Bvh::intersect_all                                 *)
(***************************************************************************)
\* bvh.intersect_all(ray, callback): the calls of the callback, in order
BvhQueryAll(r) ==
  /\ pc = "built"
  /\ query' = r
  /\ answer' = BvhIntersectAll(bvh, r)
  /\ pc' = "queried_all"
  /\ UNCHANGED <<input, bvh, traceVars, parseVars>>

NextAll ==
  \/ New
  \/ \E r \in QueryRays : BvhQueryAll(r)

SpecAll == Init /\ [][NextAll]_vars

(***************************************************************************)
(* Bvh::new over lists that hold a plane, followed by either query         *)
(***************************************************************************)
InitPlanes ==
  /\ pc = "input"
  /\ input \in {s \in SeqsUpTo(Catalog, MaxObjs) : \E k \in 1..Len(s) : s[k] = ObjP}
  /\ answer = None
  /\ BvhIdle
  /\ ParseIdle
  /\ TraceIdle

NextPlanes ==
  \/ New
  \/ \E r \in QueryRays : BvhQuery(r)
  \/ \E r \in QueryRays : BvhQueryAll(r)

SpecPlanes == InitPlanes /\ [][NextPlanes]_vars

(***************************************************************************)
(* parse_nodes: the walk of the glTF loader over the node forest           *)
(***************************************************************************)
MaxNodes == 3
\* the entries of the glTF "cameras" array
CameraIdxs == {0, 1}

NodeIdxsUpTo(n) == 0..(n - 1)

\* the node at index node_idx: its "camera", if any, and its "children"
GltfNode(nodes, node_idx) == nodes[node_idx + 1]

\* node_parents: the last node, in index order, that lists c as a child
NodeParents(nodes) ==
  [c \in NodeIdxsUpTo(Len(nodes)) |->
     LET ps == {i \in NodeIdxsUpTo(Len(nodes)) :
                  \E k \in 1..Len(GltfNode(nodes, i).children) :
                    GltfNode(nodes, i).children[k] = c}
     IN  IF ps = {} THEN None ELSE Some(CHOOSE i \in ps : \A j \in ps : j <= i)]

\* the indices of a set, in increasing order
RECURSIVE Ascending(_)
Ascending(S) ==
  IF S = {} THEN <<>>
  ELSE LET m == CHOOSE i \in S : \A j \in S : i <= j
       IN  <<m>> \o Ascending(S \ {m})

\* whether following the parents from node c ends at a root
RECURSIVE ReachesRoot(_, _, _)
ReachesRoot(parent, c, fuel) ==
  IF parent[c] = None THEN TRUE
  ELSE IF fuel = 0 THEN FALSE
  ELSE ReachesRoot(parent, Unwrap(parent[c]), fuel - 1)

\* the node forests of n nodes: every node has no parent or one parent,
\* there is no cycle, and every node carries no camera or one
Forests(n) ==
  {[k \in 1..n |->
      [camera |-> cams[k - 1],
       children |-> Ascending({c \in NodeIdxsUpTo(n) : parent[c] = Some(k - 1)})]] :
     parent \in {q \in [NodeIdxsUpTo(n) -> {None} \cup {Some(i) : i \in NodeIdxsUpTo(n)}] :
                   \A c \in NodeIdxsUpTo(n) : ReachesRoot(q, c, n)},
     cams \in [NodeIdxsUpTo(n) -> {None} \cup {Some(i) : i \in CameraIdxs}]}

InitParse ==
  /\ pc = "parsing"
  /\ input \in UNION {Forests(n) : n \in 0..MaxNodes}
  /\ answer = None
  /\ BvhIdle
  /\ TraceIdle
  /\ builder = NoBuilder
  /\ walk = NoWalk

\* parse_camera: the camera of a node, placed by that node
ParseCamera(node_idx, camera_idx) == [node |-> node_idx, camera |-> camera_idx]

\* one turn of the loop of parse_nodes over the node indices: dfs is called
\* on a node without parent
ParseNodes ==
  /\ pc = "parsing"
  /\ walk.pending = <<>>
  /\ walk.node_idx < Len(input)
  /\ walk' = [walk EXCEPT !.node_idx = @ + 1,
                          !.pending = IF NodeParents(input)[walk.node_idx] = None
                                      THEN <<walk.node_idx>> ELSE <<>>]
  /\ UNCHANGED <<pc, input, answer, builder, bvhVars, traceVars>>

\* dfs on the next node: its camera goes to the builder, its children are
\* walked before every other node that waits
Dfs ==
  /\ pc = "parsing"
  /\ walk.pending # <<>>
  /\ LET node_idx == Head(walk.pending)
         node == GltfNode(input, node_idx)
     IN  /\ builder' = IF node.camera # None
                       THEN [builder EXCEPT
                               !.camera = Some(ParseCamera(node_idx, Unwrap(node.camera)))]
                       ELSE builder
         /\ walk' = [walk EXCEPT !.pending = node.children \o Tail(@),
                                 !.visited = Append(@, node_idx)]
  /\ UNCHANGED <<pc, input, answer, bvhVars, traceVars>>

\* parse_nodes returns
ParseEnd ==
  /\ pc = "parsing"
  /\ walk.pending = <<>>
  /\ walk.node_idx = Len(input)
  /\ pc' = "parsed"
  /\ UNCHANGED <<input, answer, builder, walk, bvhVars, traceVars>>

NextParse == ParseNodes \/ Dfs \/ ParseEnd

SpecParse == InitParse /\ [][NextParse]_vars

(***************************************************************************)
(* Triangle::intersect alone, over triangles that include degenerate ones  *)
(***************************************************************************)
\* a triangle in the plane x = 0
TriX == Triangle(<<0, -2, -2>>, <<0, 2, -2>>, <<0, -2, 2>>)
\* three points of one line, and one point three times: no area
TriLine == Triangle(<<-2, 0, 0>>, <<0, 0, 0>>, <<2, 0, 0>>)
TriPoint == Triangle(<<0, 0, 6>>, <<0, 0, 6>>, <<0, 0, 6>>)

Triangles == {ObjT, TriX, TriLine, TriPoint}

TriOrigins ==
  {<<0, 0, 0>>, <<0, 0, -8>>, <<-1, -1, -8>>, <<1, 1, -8>>, <<3, 3, -8>>,
   <<-8, -1, -1>>, <<0, 0, 10>>}

InitTriangle ==
  /\ pc = "triangle"
  /\ input \in [triangle : Triangles,
                ray : {RayNew(o, d) : o \in TriOrigins, d \in AxisDirs}]
  /\ answer = None
  /\ BvhIdle
  /\ ParseIdle
  /\ TraceIdle

\* triangle.intersect(ray)
TriangleIntersect ==
  /\ pc = "triangle"
  /\ answer' = TriIntersect(input.triangle, input.ray)
  /\ pc' = "triangle_done"
  /\ UNCHANGED <<input, bvhVars, traceVars, parseVars>>

NextTriangle == TriangleIntersect

SpecTriangle == InitTriangle /\ [][NextTriangle]_vars

(***************************************************************************)
(* Bvh::new alone, over objects that include one with an infinite key      *)
(***************************************************************************)
InitBuild ==
  /\ pc = "input"
  /\ input \in SeqsUpTo(BuildCatalog, MaxObjs)
  /\ answer = None
  /\ BvhIdle
  /\ ParseIdle
  /\ TraceIdle

NextBuild == New

SpecBuild == InitBuild /\ [][NextBuild]_vars

(***************************************************************************)
(* Bvh::new over lists of objects that share keys                          *)
(***************************************************************************)
InitSplit ==
  /\ pc = "input"
  /\ input \in SeqsUpTo(SplitCatalog, MaxObjs)
  /\ answer = None
  /\ BvhIdle
  /\ ParseIdle
  /\ TraceIdle

NextSplit == New

SpecSplit == InitSplit /\ [][NextSplit]_vars

(***************************************************************************)
(* The path integrator: a scene, the parameters and a primary ray, then    *)
(* the invocations of trace_ray, each up to the invocation it makes or to  *)
(* its return without one, and the returns to the invocations that wait.   *)
(***************************************************************************)
InitTrace ==
  /\ pc = "call"
  /\ input = <<>>
  /\ answer = None
  /\ BvhIdle
  /\ ParseIdle
  /\ scene \in {BuildScene(prims, Materials) : prims \in SeqsUpTo(TracePrims, MaxPrims)}
  /\ parameters \in {[ray_depth |-> k, background_color |-> Background] : k \in 0..MaxDepth}
  /\ cur \in {Call(r, 0) : r \in PrimaryRays}
  /\ stack = <<>>
  /\ ret = Zeros

\* scene.bvh.intersect(ray)
Found == BvhIntersect(scene.bvh, cur.ray)

\* trace_ray below the depth cap
Running == pc = "call" /\ ~AtDepthCap(parameters, cur)

HitIs(found, material_type) ==
  /\ found # None
  /\ HitMaterial(scene, Unwrap(found)).material_type = material_type

Return(color, queried, sample) ==
  /\ ret' = color
  /\ cur' = [cur EXCEPT !.queried = queried, !.sample = sample]
  /\ pc' = "return"
  /\ UNCHANGED <<stack, scene, parameters, input, answer, bvhVars, parseVars>>

Recurse(hit, ray, branch, new_dir, pdf) ==
  /\ stack' = <<Frame(cur, hit, branch, new_dir, pdf)>> \o stack
  /\ cur' = [Call(ray, cur.depth + 1) EXCEPT !.calls = cur.calls + 1]
  /\ pc' = "call"
  /\ UNCHANGED <<ret, scene, parameters, input, answer, bvhVars, parseVars>>

\* trace_ray at or beyond the depth cap
TraceCap ==
  /\ pc = "call"
  /\ AtDepthCap(parameters, cur)
  /\ Return(DepthCapColor(parameters), cur.queried, <<>>)

\* trace_ray whose ray hits nothing
TraceMiss ==
  /\ Running
  /\ Found = None
  /\ Return(MissColor(parameters), TRUE, <<>>)

\* the Diffuse arm, up to its trace_ray call
DiffuseArm(hit, new_dir, pdf) ==
  IF Dot(new_dir, hit.rec.n) < 0 \/ PdfUnusable(pdf)
  THEN Return(VAdd(Zeros, HitMaterial(scene, hit).emission), TRUE,
              [new_dir |-> new_dir, pdf |-> pdf])
  ELSE Recurse(hit, RayNewShifted(HitPoint(cur, hit), new_dir), "diffuse",
               new_dir, pdf)

\* the Metallic arm, up to its trace_ray call
MetallicArm(hit) ==
  Recurse(hit, GetReflectedRay(cur.ray.direction, HitPoint(cur, hit), hit.rec.n),
          "metallic", Zeros, 0)

\* calc_dielectric_color, up to its trace_ray call
DielectricArm(hit, ior, u) ==
  IF Refracts(hit.rec.is_inside, ior, <<-Dot(cur.ray.direction, hit.rec.n), 1>>, u)
  THEN Recurse(hit,
               GetRefractedRay(cur.ray.direction, HitPoint(cur, hit), hit.rec.n,
                               Eta(hit.rec.is_inside, ior)),
               "refracted", Zeros, 0)
  ELSE Recurse(hit,
               GetReflectedRay(cur.ray.direction, HitPoint(cur, hit), hit.rec.n),
               "reflected", Zeros, 0)

Arm(found, material_type, new_dir, pdf, u) ==
  /\ HitIs(found, material_type)
  /\ CASE material_type = "Diffuse" -> DiffuseArm(Unwrap(found), new_dir, pdf)
       [] material_type = "Metallic" -> MetallicArm(Unwrap(found))
       [] material_type = "Dielectric" ->
            DielectricArm(Unwrap(found), HitMaterial(scene, Unwrap(found)).ior, u)

\* trace_ray at a Diffuse hit
TraceDiffuse(new_dir, pdf) == Running /\ Arm(Found, "Diffuse", new_dir, pdf, <<0, 1>>)

\* trace_ray at a Metallic hit
TraceMetallic == Running /\ Arm(Found, "Metallic", Zeros, 0, <<0, 1>>)

\* trace_ray at a Dielectric hit
TraceDielectric(u) == Running /\ Arm(Found, "Dielectric", Zeros, 0, u)

\* the return of a trace_ray call to the invocation that made it, and that
\* invocation to its own return
TraceReturn ==
  /\ pc = "return"
  /\ stack # <<>>
  /\ ret' = Continue(scene, Head(stack), ret)
  /\ cur' = [Head(stack).call EXCEPT !.calls = cur.calls]
  /\ stack' = Tail(stack)
  /\ UNCHANGED <<pc, scene, parameters, input, answer, bvhVars, parseVars>>

NextTrace ==
  \/ TraceCap
  \/ TraceMiss
  \/ \E new_dir \in AxisDirs, pdf \in PdfDraws : TraceDiffuse(new_dir, pdf)
  \/ TraceMetallic
  \/ \E u \in UDraws : TraceDielectric(u)
  \/ TraceReturn

SpecTrace == InitTrace /\ [][NextTrace]_vars

(***************************************************************************)
(* calc_dielectric_color's choice of the ray it traces, over incidence     *)
(* cosines, indices of refraction, sides and draws                         *)
(***************************************************************************)
InitDielectric ==
  /\ pc = "dielectric"
  /\ input \in [cos1 : CosDraws, is_inside : BOOLEAN, ior : IorDraws, u : UDraws]
  /\ answer = None
  /\ BvhIdle
  /\ ParseIdle
  /\ TraceIdle

\* calc_dielectric_color: the rays it hands to trace_ray
CalcDielectricColor ==
  /\ pc = "dielectric"
  /\ answer' = IF Refracts(input.is_inside, input.ior, input.cos1, input.u)
               THEN <<"refracted_ray">> ELSE <<"reflected_ray">>
  /\ pc' = "dielectric_done"
  /\ UNCHANGED <<input, bvhVars, traceVars, parseVars>>

NextDielectric == CalcDielectricColor

SpecDielectric == InitDielectric /\ [][NextDielectric]_vars

(***************************************************************************)
(* ToLigth::pdf over light lists, shading points and directions            *)
(***************************************************************************)
InitPdf ==
  /\ pc = "pdf"
  /\ input \in [lights : SeqsUpTo(LightCatalog, MaxLights), p : PdfPoints,
                n : {<<0, 0, 1>>}, d : AxisDirs]
  /\ answer = None
  /\ BvhIdle
  /\ ParseIdle
  /\ TraceIdle

\* to_light.pdf(p, n, d), with the terms each light added
Pdf ==
  /\ pc = "pdf"
  /\ answer' = [pdf |-> ToLigthPdf(input.lights, input.p, input.n, input.d),
                terms |-> AllTerms(input.lights, input.p, RayNew(input.p, input.d))]
  /\ pc' = "pdf_done"
  /\ UNCHANGED <<input, bvhVars, traceVars, parseVars>>

NextPdf == Pdf

SpecPdf == InitPdf /\ [][NextPdf]_vars

(***************************************************************************)
(* Parallelipiped::sample (src/src/objects/sample.rs) over box sizes and   *)
(* the draws of the generator                                              *)
(***************************************************************************)
BoxSizes == {<<2, 2, 2>>, <<2, 4, 6>>}

\* a * b + b * c + a * c
FacesArea(sizes) ==
  sizes[1] * sizes[2] + sizes[2] * sizes[3] + sizes[1] * sizes[3]

\* the draws of rng.gen_range(0.0..area): the ends of the three intervals
\* the code tells apart
AreaDraws(sizes) ==
  {0, sizes[1] * sizes[2] - 1, sizes[1] * sizes[2],
   sizes[1] * sizes[2] + sizes[1] * sizes[3] - 1,
   sizes[1] * sizes[2] + sizes[1] * sizes[3], FacesArea(sizes) - 1}

\* the draws of rng.gen_range(-sizes[i]..sizes[i])
CoordDraw(size) == {-size, 0, size - 1}

CoordDraws(sizes) ==
  CoordDraw(sizes[1]) \X CoordDraw(sizes[2]) \X CoordDraw(sizes[3])

\* the unit vector the draw x selects
FaceAxis(sizes, x) ==
  IF x < sizes[1] * sizes[2] THEN <<0, 0, 1>>
  ELSE IF x < sizes[1] * sizes[2] + sizes[1] * sizes[3] THEN <<0, 1, 0>>
  ELSE <<0, 0, 1>>

\* if rng.gen_bool(0.5) { p = -p }
Flipped(p, flip) == IF flip THEN VNeg(p) ELSE p

\* the loop over the coordinates: a coordinate that is zero is drawn
FillFace(p, u) ==
  <<IF p[1] = 0 THEN u[1] ELSE p[1], IF p[2] = 0 THEN u[2] ELSE p[2],
    IF p[3] = 0 THEN u[3] ELSE p[3]>>

BoxSample(sizes, x, flip, u) ==
  FillFace(CMul(Flipped(FaceAxis(sizes, x), flip), sizes), u)

InitSample ==
  /\ pc = "sample"
  /\ input \in [sizes : BoxSizes]
  /\ answer = None
  /\ BvhIdle
  /\ ParseIdle
  /\ TraceIdle

\* parallelipiped.sample(rng)
Sample(x, flip, u) ==
  /\ pc = "sample"
  /\ answer' = [p |-> BoxSample(input.sizes, x, flip, u), x |-> x, flip |-> flip]
  /\ pc' = "sampled"
  /\ UNCHANGED <<input, bvhVars, traceVars, parseVars>>

NextSample ==
  \E x \in AreaDraws(input.sizes), flip \in BOOLEAN, u \in CoordDraws(input.sizes) :
    Sample(x, flip, u)

SpecSample == InitSample /\ [][NextSample]_vars

(***************************************************************************)
(* MIS::sample (src/src/random.rs) over light lists, shading points,       *)
(* normals and the draws of the generator.  A direction runs along an     *)
(* axis: a point drawn on a light is kept when it lies on such a line      *)
(* through the shading point.                                              *)
(***************************************************************************)
\* sphere_uniform: phi in [0, PI) and z in [-1, 1), so that y >= 0 and z < 1
SphereUniformDraws == {<<1, 0, 0>>, <<0, 1, 0>>, <<0, 0, -1>>}

MisNormals == {<<0, 0, 1>>, <<0, 0, -1>>, <<0, 1, 0>>}

\* Uniform::sample
UniformSample(n, d) == IF FLe(Dot(d, n), 0) THEN VNeg(d) ELSE d

\* Cosine::pdf: dot(n, d).max(0.0) / PI
CosinePdf(n, d) == [num |-> FMax(Dot(n, d), 0), den |-> 1, per_pi |-> TRUE]

\* Triangle::sample with a and b in fourths
TriangleSample(tri, a, b) ==
  LET a1 == IF a + b > 4 THEN 4 - a ELSE a
      b1 == IF a + b > 4 THEN 4 - b ELSE b
  IN  VAdd(tri.v, <<(a1 * tri.edge1[1] + b1 * tri.edge2[1]) \div 4,
                    (a1 * tri.edge1[2] + b1 * tri.edge2[2]) \div 4,
                    (a1 * tri.edge1[3] + b1 * tri.edge2[3]) \div 4>>)

\* Figure::sample: the points the draws of the model give
FigurePoints(obj) ==
  CASE obj.kind = "box" ->
         {BoxSample(obj.sizes, x, flip, u) :
            x \in AreaDraws(obj.sizes), flip \in BOOLEAN, u \in CoordDraws(obj.sizes)}
    [] obj.kind = "tri" -> {TriangleSample(obj, a, b) : a \in 0..3, b \in 0..3}

\* PositionedFigure::sample: self.rotation * point + self.position
PositionedSample(obj, point) == VAdd(MatVec(obj.rotation, point), obj.position)

AlongAxis(u) == Cardinality({i \in Axes : u[i] # 0}) = 1

\* ToLigth::sample past its test for an empty list: the directions
\* (p_light - p).normalize() towards the points of the light of index idx
LightDirections(lights, p, idx) ==
  {Normalize(VSub(PositionedSample(lights[idx], q), p)) :
     q \in {r \in FigurePoints(lights[idx]) :
              AlongAxis(VSub(PositionedSample(lights[idx], r), p))}}

\* the half of a density
HalfPdf(pdf) ==
  [num |-> Reduced(<<pdf.num, 2 * pdf.den>>)[1],
   den |-> Reduced(<<pdf.num, 2 * pdf.den>>)[2], per_pi |-> pdf.per_pi]

\* a * cosine_prob + b * (1.0 - cosine_prob): the part that is a multiple of
\* 1 / PI and the part that is not
Mixture(a, b) ==
  LET parts == <<HalfPdf(a), HalfPdf(b)>>
      part(per_pi) == RSum(FiniteTerm(IF parts[1].per_pi = per_pi
                                      THEN <<parts[1].num, parts[1].den>> ELSE <<0, 0>>) \o
                           FiniteTerm(IF parts[2].per_pi = per_pi
                                      THEN <<parts[2].num, parts[2].den>> ELSE <<0, 0>>))
  IN  [per_pi |-> part(TRUE), plain |-> part(FALSE), infinite |-> FALSE]

\* if !(pdf > 0.0) { pdf = f32::INFINITY }
Positive(mix) == mix.per_pi[1] > 0 \/ mix.plain[1] > 0

MisPdf(mix) ==
  IF Positive(mix) THEN mix
  ELSE [per_pi |-> <<0, 1>>, plain |-> <<0, 1>>, infinite |-> TRUE]

\* SampledDirection { d, pdf }, with the function that drew d and the two
\* densities that were mixed
SampledDirection(lights, p, n, d, sampler) ==
  [d |-> d, sampler |-> sampler,
   uniform_pdf |-> UniformPdf(n, d),
   to_light_pdf |-> ToLigthPdf(lights, p, n, d),
   pdf |-> MisPdf(Mixture(UniformPdf(n, d), ToLigthPdf(lights, p, n, d)))]

InitMis ==
  /\ pc = "mis"
  /\ input \in [lights : SeqsUpTo(LightCatalog, MaxLights), p : PdfPoints,
                n : MisNormals]
  /\ answer = None
  /\ BvhIdle
  /\ ParseIdle
  /\ TraceIdle

MisReturn(d, sampler) ==
  /\ answer' = SampledDirection(input.lights, input.p, input.n, d, sampler)
  /\ pc' = "mis_done"
  /\ UNCHANGED <<input, bvhVars, traceVars, parseVars>>

\* MIS::sample when rng.gen_bool(cosine_prob) holds
MisSampleUniform(d0) ==
  /\ pc = "mis"
  /\ MisReturn(UniformSample(input.n, d0), "Uniform::sample")

\* MIS::sample otherwise, with no light: ToLigth::sample draws as Uniform
MisSampleNoLight(d0) ==
  /\ pc = "mis"
  /\ input.lights = <<>>
  /\ MisReturn(UniformSample(input.n, d0), "Uniform::sample")

\* MIS::sample otherwise, with lights
MisSampleToLight(idx, d) ==
  /\ pc = "mis"
  /\ input.lights # <<>>
  /\ idx \in 1..Len(input.lights)
  /\ d \in LightDirections(input.lights, input.p, idx)
  /\ MisReturn(d, "ToLigth::sample")

NextMis ==
  \/ \E d0 \in SphereUniformDraws : MisSampleUniform(d0)
  \/ \E d0 \in SphereUniformDraws : MisSampleNoLight(d0)
  \/ \E idx \in 1..MaxLights, d \in AxisDirs : MisSampleToLight(idx, d)

SpecMis == InitMis /\ [][NextMis]_vars

(***************************************************************************)
(* PositionedFigure::intersect over the figures and over rays that start   *)
(* off, on and inside their surfaces                                       *)
(***************************************************************************)
HitOrigins ==
  {<<0, 0, -8>>, <<0, 0, -4>>, <<0, 0, -2>>, <<0, 0, 0>>, <<0, 0, 2>>,
   <<0, 0, 6>>, <<0, 0, 10>>, <<2, 0, 0>>, <<6, 0, 0>>, <<8, 0, 0>>,
   <<12, 0, 0>>, <<-2, -2, 6>>}

InitIntersect ==
  /\ pc = "intersect"
  /\ input \in [obj : Catalog, ray : {RayNew(o, d) : o \in HitOrigins, d \in AxisDirs}]
  /\ answer = None
  /\ BvhIdle
  /\ ParseIdle
  /\ TraceIdle

\* obj.intersect(ray)
FigureHit ==
  /\ pc = "intersect"
  /\ answer' = Intersect(input.obj, input.ray)
  /\ pc' = "intersected"
  /\ UNCHANGED <<input, bvhVars, traceVars, parseVars>>

NextIntersect == FigureHit

SpecIntersect == InitIntersect /\ [][NextIntersect]_vars

(***************************************************************************)
(* SceneBuilder::build_scene over lists of primitives                      *)
(***************************************************************************)
MaxScenePrims == 3

InitScene ==
  /\ pc = "builder"
  /\ input \in SeqsUpTo(TracePrims, MaxScenePrims)
  /\ answer = None
  /\ BvhIdle
  /\ ParseIdle
  /\ TraceIdle

\* scene_builder.build_scene()
BuildSceneStep ==
  /\ pc = "builder"
  /\ scene' = BuildScene(input, Materials)
  /\ pc' = "scene"
  /\ UNCHANGED <<input, answer, parameters, cur, stack, ret, bvhVars, parseVars>>

NextScene == BuildSceneStep

SpecScene == InitScene /\ [][NextScene]_vars

(***************************************************************************)
(* Properties of the built hierarchy and of its queries                    *)
(***************************************************************************)
Built == pc \in {"built", "queried"}

ObjIdxs == 0..(GetNObjects(bvh) - 1)
NodeIdxs == 0..(Len(bvh.nodes) - 1)
NodeAt(k) == bvh.nodes[k + 1]
IsLeaf(k) == NodeAt(k).children = <<>>
InRange(k, i) == NodeAt(k).first_obj_idx <= i /\ i < NodeAt(k).last_obj_idx
Holders(i) == {k \in NodeIdxs : InRange(k, i)}

\* C1 as stated: the ranges of the leaves are pairwise disjoint and their
\* union is [0, n), that is, every object index lies in the range of exactly
\* one leaf.
C1_LeafRangesPartition ==
  Built => \A i \in ObjIdxs : Cardinality({k \in Holders(i) : IsLeaf(k)}) = 1

\* C1: after Bvh::new every object index in [0, n) lies in the range of
\* exactly one node.  That node is a leaf, unless the object's AABB has an
\* infinite size: such an object lies in the range of the root, which may
\* have children.  The leaf ranges alone partition [0, n) when no object has
\* an AABB of infinite size.
C1_NodeRangesPartition ==
  Built => \A i \in ObjIdxs :
             \E k \in NodeIdxs :
               /\ Holders(i) = {k}
               /\ \/ IsLeaf(k)
                  \/ k = bvh.root /\ IsInfiniteSize(ObjAabb(GetObject(bvh, i)))

\* A hierarchy whose root was split and keeps an object in its own range.
C1_Witness ==
  /\ pc = "built"
  /\ ~IsLeaf(bvh.root)
  /\ NodeAt(bvh.root).last_obj_idx > 0
  /\ \E k \in NodeIdxs : IsLeaf(k) /\ NodeAt(k).last_obj_idx = GetNObjects(bvh)

\* C2: the AABB of every internal node contains the AABBs of both its
\* children, and the AABB of every leaf contains the AABB of every object
\* in the leaf's range.
C2_AabbContainment ==
  Built => \A k \in NodeIdxs :
             IF IsLeaf(k)
             THEN \A i \in ObjIdxs :
                    InRange(k, i) =>
                      AabbContains(NodeAt(k).aabb, ObjAabb(GetObject(bvh, i)))
             ELSE /\ AabbContains(NodeAt(k).aabb, NodeAt(NodeAt(k).children[1]).aabb)
                  /\ AabbContains(NodeAt(k).aabb, NodeAt(NodeAt(k).children[2]).aabb)

\* A split hierarchy with a leaf over objects of different boxes.
C2_Witness ==
  /\ pc = "built"
  /\ ~IsLeaf(bvh.root)
  /\ \E k \in NodeIdxs :
       /\ IsLeaf(k)
       /\ \E i, j \in ObjIdxs :
            /\ InRange(k, i) /\ InRange(k, j)
            /\ ObjAabb(GetObject(bvh, i)) # ObjAabb(GetObject(bvh, j))

\* The point of every hit at a finite distance lies in the hit object's AABB.
HitsInsideAabbs ==
  \A i \in ObjIdxs :
    LET h == Intersect(GetObject(bvh, i), query)
        box == ObjAabb(GetObject(bvh, i))
    IN  (h # None /\ IsFinite(Unwrap(h).t)) =>
          LET p == RayAt(query, Unwrap(h).t)
          IN  \A a \in Axes : FLe(box.min[a], p[a]) /\ FLe(p[a], box.max[a])

\* C3 as stated: when the point of every object's hit lies in that object's
\* AABB, Bvh::intersect returns None exactly when the linear scan over the
\* objects finds no hit, and otherwise a hit of the object it names whose t
\* is the smallest the linear scan finds.
C3_SameAsLinearScan ==
  (pc = "queried" /\ HitsInsideAabbs) =>
    LET lin == IntersectWithObjects(bvh.objects, query, INF)
    IN  /\ (answer = None) <=> (lin = None)
        /\ answer # None =>
             /\ Some(Unwrap(answer).rec) = Intersect(GetObject(bvh, Unwrap(answer).idx), query)
             /\ Unwrap(answer).rec.t = Unwrap(lin).rec.t

\* The normal of the figure's hit in world space, before it is oriented.
WorldNormal(obj, r) ==
  RotatedNormal(obj, Unwrap(FigureIntersect(obj, LocalRay(obj, r))))

\* C6: the normal n of every hit a positioned figure returns satisfies
\* n . D <= 0 for the ray direction D; it is the figure's normal negated when
\* that normal has a positive dot product with D, and the figure's normal
\* unchanged otherwise.
C6_NormalAgainstRay ==
  pc = "queried" =>
    \A i \in ObjIdxs :
      LET obj == GetObject(bvh, i)
          h == Intersect(obj, query)
      IN  h # None =>
            /\ FLe(Dot(Unwrap(h).n, query.direction), 0)
            /\ Unwrap(h).n = IF FGt(Dot(WorldNormal(obj, query), query.direction), 0)
                             THEN VNeg(WorldNormal(obj, query))
                             ELSE WorldNormal(obj, query)

\* A query answered by a hit whose figure normal pointed along the ray.
C6_Witness ==
  /\ pc = "queried"
  /\ answer # None
  /\ FGt(Dot(WorldNormal(GetObject(bvh, Unwrap(answer).idx), query), query.direction), 0)
  /\ FLt(Dot(Unwrap(answer).rec.n, query.direction), 0)

(***************************************************************************)
(* trace_ray                                                               *)
(***************************************************************************)
\* the invocation cur has returned
Returned == pc = "return"

\* what the linear scan over the scene's primitives finds along a ray
Scanned(ray) == IntersectWithObjects(scene.bvh.objects, ray, INF)

\* C4: trace_ray called with depth >= ray_depth returns zero radiance for
\* every ray and every scene: it has not asked the BVH for an intersection
\* and its result holds neither background nor emission.
C4_DepthCapReturnsZero ==
  (Returned /\ cur.depth >= parameters.ray_depth) =>
    ret = Zeros /\ ~cur.queried

\* An invocation cut at the cap whose ray would have hit a primitive, in a
\* scene whose background is not black.
C4_Witness ==
  /\ Returned
  /\ cur.depth >= parameters.ray_depth
  /\ cur.depth > 0
  /\ Scanned(cur.ray) # None
  /\ parameters.background_color # Zeros

\* C5: trace_ray called with depth < ray_depth on a ray that hits no
\* primitive returns exactly the background colour; so does every primary
\* ray of a scene with no primitive.
C5_MissReturnsBackground ==
  (Returned /\ cur.depth < parameters.ray_depth /\ Scanned(cur.ray) = None) =>
    ret = parameters.background_color

\* A ray that misses every primitive of a scene that holds some.
C5_Witness ==
  /\ Returned
  /\ cur.depth < parameters.ray_depth
  /\ scene.bvh.objects # <<>>
  /\ Scanned(cur.ray) = None
  /\ cur.queried

\* the mirror direction d_r = D - 2 (D . n) n
MirrorDirection(D, n) == VSub(D, VScale(2 * Dot(D, n), n))

\* the invocation on top of the stack waits at a Metallic hit
MetallicWaits == stack # <<>> /\ Head(stack).branch = "metallic"

\* C8: at a Metallic hit with depth < ray_depth, trace_ray traces at
\* depth + 1 the ray from the hit point shifted by eps along the mirror
\* direction d_r = D - 2 (D . n) n, and returns C * L + E for the radiance L
\* that call returns; so a mirror of colour (1, 1, 1) without emission whose
\* reflected ray hits nothing returns the background colour.
C8_MetallicRadiance ==
  [][/\ (pc = "call" /\ pc' = "call" /\ Head(stack').branch = "metallic") =>
          LET hit == Head(stack').hit
              d_r == MirrorDirection(cur.ray.direction, hit.rec.n)
          IN  /\ cur.depth < parameters.ray_depth
              /\ cur'.depth = cur.depth + 1
              /\ cur'.ray.direction = d_r
              /\ cur'.ray.origin =
                   VAdd(RayAt(cur.ray, hit.rec.t), VScale(EPS, d_r))
     /\ (Returned /\ MetallicWaits) =>
          LET material == HitMaterial(scene, Head(stack).hit)
          IN  /\ ret' = VAdd(CMul(material.color, ret), material.emission)
              /\ (/\ material.color = <<1, 1, 1>>
                  /\ material.emission = Zeros
                  /\ cur.depth < parameters.ray_depth
                  /\ Scanned(cur.ray) = None) => ret' = parameters.background_color
    ]_vars

\* The primary ray has come back from a white mirror without emission with
\* the background colour, which is not black.
C8_Witness ==
  /\ Returned
  /\ stack = <<>>
  /\ cur.depth = 0
  /\ cur.queried
  /\ Found # None
  /\ HitMaterial(scene, Unwrap(Found)).material_type = "Metallic"
  /\ HitMaterial(scene, Unwrap(Found)).color = <<1, 1, 1>>
  /\ HitMaterial(scene, Unwrap(Found)).emission = Zeros
  /\ ret = parameters.background_color
  /\ ret # Zeros

\* A tinted, emissive mirror is handed a radiance that is not black.
C8_WitnessTinted ==
  /\ Returned
  /\ MetallicWaits
  /\ HitMaterial(scene, Head(stack).hit).color # <<1, 1, 1>>
  /\ HitMaterial(scene, Head(stack).hit).emission # Zeros
  /\ ret # Zeros

(***************************************************************************)
(* calc_dielectric_color                                                   *)
(***************************************************************************)
\* eta^2 (1 - cos1^2) <= 1 for eta = n / d and cos1 = c / e, in integers
SinWithinOne(n, d, c, e) == n * n * (e * e - c * c) <= d * d * e * e

\* u < 1 - F for the Schlick coefficient F = f / g and u = a / b
BelowTransmittance(a, b, f, g) == a * g < (g - f) * b

\* C7: at a Dielectric hit trace recurses along the refracted ray iff the
\* refraction is valid (|sin2| <= 1) and the draw u satisfies u < 1 - F; in
\* every other case, total internal reflection for any u included, it
\* recurses along the reflected ray; exactly one of the two rays is traced.
C7_RefractsIffValidAndDrawn ==
  pc = "dielectric_done" =>
    LET eta == IF input.is_inside THEN input.ior
               ELSE <<input.ior[2], input.ior[1]>>
        F == SchilcksCoeff(eta, input.cos1)
        valid == SinWithinOne(eta[1], eta[2], input.cos1[1], input.cos1[2])
        drawn == BelowTransmittance(input.u[1], input.u[2], F[1], F[2])
    IN  /\ Len(answer) = 1
        /\ answer = IF valid /\ drawn THEN <<"refracted_ray">>
                    ELSE <<"reflected_ray">>

\* Total internal reflection met with the smallest draw: leaving glass of
\* index 3/2 at cos1 = 3/5 gives sin2^2 = 36/25.
C7_Witness ==
  /\ pc = "dielectric_done"
  /\ input.is_inside
  /\ input.ior = <<3, 2>>
  /\ input.cos1 = <<3, 5>>
  /\ input.u = <<0, 100>>
  /\ answer = <<"reflected_ray">>

\* A valid refraction turned down by the draw.
C7_WitnessDrawn ==
  /\ pc = "dielectric_done"
  /\ SinWithinOne(Eta(input.is_inside, input.ior)[1], Eta(input.is_inside, input.ior)[2],
                  input.cos1[1], input.cos1[2])
  /\ answer = <<"reflected_ray">>

(***************************************************************************)
(* ToLigth::pdf                                                            *)
(***************************************************************************)
PdfDone == pc = "pdf_done"

PdfRay == RayNew(input.p, input.d)

\* The number of times the ray crosses the surface of a light: a first
\* crossing, and a second one when the ray restarted just past the first
\* meets the light again.
Crossings(obj) ==
  LET i1 == Intersect(obj, PdfRay)
  IN  IF i1 = None THEN 0
      ELSE IF Intersect(obj, ShiftedPast(PdfRay, Unwrap(i1).t)) = None THEN 1
      ELSE 2

\* C9 as stated: ToLight.pdf sums exactly one solid-angle term per crossing
\* of the ray with a light (one for a light crossed once, two for a convex
\* closed light crossed twice, none for a light missed) and divides the sum
\* by the number of lights.
C9_OneTermPerCrossing ==
  (PdfDone /\ input.lights # <<>>) =>
    /\ \A k \in 1..Len(input.lights) :
         Len(answer.terms[k]) = Crossings(input.lights[k])
    /\ answer.pdf = Averaged(RSum(Flatten(answer.terms)), Len(input.lights))

DrawnSample ==
  IF pc' = "return" THEN cur'.sample
  ELSE [new_dir |-> Head(stack').new_dir, pdf |-> Head(stack').pdf]

DrawsDiffuse ==
  /\ pc = "call"
  /\ IF pc' = "return" THEN cur'.sample # <<>>
     ELSE Head(stack').branch = "diffuse"

\* zero, NaN, infinite, or below the smallest density the branch accepts
Degenerate(pdf) == pdf = 0 \/ pdf = NaN \/ pdf = INF \/ pdf = -INF \/ pdf < 1

\* C11: in the Diffuse branch, when the mixture PDF of the sampled direction
\* is zero, non-finite or below 1e-6, the incoming contribution is exactly
\* zero and no secondary ray is traced: trace returns only the emission E
\* of the material that was hit.
C11_DegeneratePdfReturnsEmission ==
  [][(DrawsDiffuse /\ Degenerate(DrawnSample.pdf)) =>
       /\ pc' = "return"
       /\ stack' = stack
       /\ cur'.depth = cur.depth
       /\ ret' = HitMaterial(scene, Unwrap(Found)).emission
    ]_vars

\* A Diffuse light was hit with a sample in the normal's hemisphere whose
\* density is infinite; the invocation returned the light's emission alone.
C11_Witness ==
  /\ Returned
  /\ cur.sample # <<>>
  /\ cur.sample.pdf = INF
  /\ Dot(cur.sample.new_dir, Unwrap(Found).rec.n) > 0
  /\ ret = HitMaterial(scene, Unwrap(Found)).emission
  /\ ret # Zeros

(***************************************************************************)
(* Bvh::new and the sort keys                                              *)
(***************************************************************************)
Constructed == pc \in {"built", "panicked"}

BadKey(obj) == \E axis \in Axes : ~IsFinite(Key(ObjAabb(obj), axis))

\* the objects Bvh::new hands to build_node: those whose AABB has no
\* infinite size
Sortable == {k \in 1..Len(input) : ~IsInfiniteSize(ObjAabb(input[k]))}

\* C12 as stated: Bvh::new aborts whenever the key min[axis] + max[axis] of
\* some object's AABB is NaN or infinite, for every number of objects.
C12_AbortsOnEveryBadKey ==
  (Constructed /\ \E k \in 1..Len(input) : BadKey(input[k])) => pc = "panicked"

\* C12: Bvh::new aborts, producing no BVH, exactly when more than 4 of its
\* objects have an AABB whose size is not infinite and the key
\* min[axis] + max[axis] of one of these is NaN or infinite on some axis.
\* Keys are not computed for 4 such objects or fewer, nor for the objects
\* whose AABB has an infinite size, which stay in the root's range.
C12_AbortsOnSortedBadKey ==
  Constructed =>
    /\ pc = "panicked" <=>
         /\ Cardinality(Sortable) > 4
         /\ \E k \in Sortable : BadKey(input[k])
    /\ pc = "panicked" <=> bvh.panicked

\* Five objects are sorted and one of them has an infinite key: no BVH.
C12_Witness ==
  /\ pc = "panicked"
  /\ Cardinality(Sortable) = 5
  /\ Cardinality({k \in Sortable : BadKey(input[k])}) = 1

(***************************************************************************)
(* Triangle::intersect                                                     *)
(***************************************************************************)
\* the largest distance at which a ray of the model meets a triangle's plane
MaxT == 20
\* the edges of the model's triangles are 4 long: u and v are fourths
Fourths == AxisLength(ObjT.edge1)

TriangleDone == pc = "triangle_done"

\* [e1, e2, -D] is not invertible: the triangle has no area, or the ray is
\* parallel to its plane
Singular(fig, ray) ==
  \/ Cross(fig.edge1, fig.edge2) = Zeros
  \/ Dot(Cross(fig.edge1, fig.edge2), ray.direction) = 0

\* the point of the ray at t is v + u e1 + v e2 with u >= 0, v >= 0 and
\* u + v <= 1
InTriangleAt(fig, ray, t) ==
  \E a, b \in 0..Fourths :
    /\ a + b <= Fourths
    /\ VScale(Fourths, VSub(RayAt(ray, t), fig.v)) =
         VAdd(VScale(a, fig.edge1), VScale(b, fig.edge2))

\* C13: Triangle::intersect returns no hit, and does not abort, when the
\* matrix [e1, e2, -D] is not invertible (a triangle without area, a ray
\* parallel to the triangle's plane); otherwise it reports a hit iff
\* t >= 0, u >= 0, v >= 0 and u + v <= 1, at that t.
C13_TriangleHitIffInside ==
  TriangleDone =>
    IF Singular(input.triangle, input.ray) THEN answer = None
    ELSE /\ answer # None <=>
              \E t \in 0..MaxT : InTriangleAt(input.triangle, input.ray, t)
         /\ answer # None =>
              InTriangleAt(input.triangle, input.ray, Unwrap(answer).t)

\* A ray aimed at a point of a triangle without area finds nothing.
C13_Witness ==
  /\ TriangleDone
  /\ input.triangle = TriLine
  /\ input.ray = RayNew(<<0, 0, -8>>, <<0, 0, 1>>)
  /\ answer = None

\* A ray stopped by a triangle, and one that meets the triangle's plane
\* beyond the edge u + v = 1.
C13_WitnessHit ==
  /\ TriangleDone
  /\ answer # None
  /\ Unwrap(answer).t = 14

C13_WitnessBeyond ==
  /\ TriangleDone
  /\ input.triangle = ObjT
  /\ input.ray = RayNew(<<1, 1, -8>>, <<0, 0, 1>>)
  /\ answer = None

(***************************************************************************)
(* parse_nodes and the cameras                                             *)
(***************************************************************************)
\* the nodes that carry a camera, in the order the walk visited them
CameraNodes == SelectSeq(walk.visited, LAMBDA i : GltfNode(input, i).camera # None)

\* C14 as stated: when several nodes of the glTF node tree carry a camera,
\* the scene's camera is the one of the first camera node the loader's walk
\* visits; the camera nodes visited later do not replace it.
C14_FirstCameraKept ==
  (pc = "parsed" /\ Len(CameraNodes) > 0) =>
    builder.camera =
      Some(ParseCamera(CameraNodes[1], Unwrap(GltfNode(input, CameraNodes[1]).camera)))

(***************************************************************************)
(* Bvh::intersect_all                                                      *)
(***************************************************************************)
QueriedAll == pc = "queried_all"

\* the calls the callback received for the object at index i
CallsFor(i) == SelectSeq(answer, LAMBDA c : c.idx = i)

\* the ray restarted just past the distance t
Restarted(t) ==
  [origin |-> VAdd(query.origin, VScale(t + EPS, query.direction)),
   direction |-> query.direction]

\* how often the callback is due for the object at index i: once when the
\* ray hits it, once more when the restarted ray hits it again
CallsDue(i) ==
  LET first == Intersect(GetObject(bvh, i), query)
  IN  IF first = None THEN 0
      ELSE IF Intersect(GetObject(bvh, i), Restarted(Unwrap(first).t)) = None THEN 1
      ELSE 2

\* C15 as stated: when the point of every object's hit lies in that object's
\* AABB, Bvh::intersect_all calls the callback, for every stored object the
\* ray hits, on the first crossing and, iff the ray restarted at
\* first-t + eps hits the object again, on the second crossing; no hit
\* object is skipped and none is visited twice.
C15_EveryHitObjectOnce ==
  (QueriedAll /\ HitsInsideAabbs) =>
    \A i \in ObjIdxs :
      /\ Len(CallsFor(i)) = CallsDue(i)
      /\ CallsDue(i) > 0 =>
           Some(CallsFor(i)[1].rec) = Intersect(GetObject(bvh, i), query)

\* C16: the second crossing that intersect_all passes to the callback
\* carries t = first-t + eps + second-t, second-t being measured from the
\* shifted origin, and comes with the original ray: origin + t D of that
\* ray is the second surface point.
C16_SecondCrossingDistance ==
  QueriedAll =>
    \A i \in ObjIdxs :
      Len(CallsFor(i)) = 2 =>
        LET first == CallsFor(i)[1]
            second == CallsFor(i)[2]
            again == Unwrap(Intersect(GetObject(bvh, i), Restarted(first.rec.t)))
        IN  /\ second.rec.t = first.rec.t + EPS + again.t
            /\ second.ray = query
            /\ RayAt(second.ray, second.rec.t) =
                 RayAt(Restarted(first.rec.t), again.t)

\* The callback received both crossings of a box that the ray enters and
\* leaves.
C16_Witness ==
  /\ QueriedAll
  /\ \E i \in ObjIdxs :
       /\ Len(CallsFor(i)) = 2
       /\ CallsFor(i)[1].rec.t > 0
       /\ CallsFor(i)[2].rec.t > CallsFor(i)[1].rec.t + EPS

(***************************************************************************)
(* The ranges of the nodes that have children                              *)
(***************************************************************************)
\* the objects whose AABB has an infinite size
InfiniteObjs == {i \in ObjIdxs : IsInfiniteSize(ObjAabb(GetObject(bvh, i)))}

\* C17 as stated: after Bvh::new every node that has children stores no
\* objects: its range is empty (first_obj_idx = last_obj_idx).
C17_InternalNodesEmpty ==
  Built => \A k \in NodeIdxs :
             ~IsLeaf(k) => NodeAt(k).first_obj_idx = NodeAt(k).last_obj_idx

\* C17: after Bvh::new every node that has children stores no objects,
\* except the root: the root's range is [0, k) for the k objects whose AABB
\* has an infinite size, which Bvh::new moves to the front, and is empty
\* when there is none.  Every other object is stored in a node without
\* children.
C17_OnlyRootHoldsInfinite ==
  Built => \A k \in NodeIdxs :
             ~IsLeaf(k) =>
               IF k = bvh.root
               THEN /\ NodeAt(k).first_obj_idx = 0
                    /\ NodeAt(k).last_obj_idx = Cardinality(InfiniteObjs)
                    /\ InfiniteObjs = 0..(NodeAt(k).last_obj_idx - 1)
               ELSE NodeAt(k).first_obj_idx = NodeAt(k).last_obj_idx

\* A root with children that keeps a plane in its own range.
C17_Witness ==
  /\ pc = "built"
  /\ ~IsLeaf(bvh.root)
  /\ InfiniteObjs # {}
  /\ NodeAt(bvh.root).last_obj_idx = Cardinality(InfiniteObjs)

\* A child of the root that has children of its own, and holds nothing.
C17_WitnessDeep ==
  /\ pc = "built"
  /\ \E k \in NodeIdxs :
       k # bvh.root /\ ~IsLeaf(k) /\ NodeAt(k).first_obj_idx = NodeAt(k).last_obj_idx

(***************************************************************************)
(* The nodes build_node splits                                             *)
(***************************************************************************)
\* the object indices build_node was given for the node k: those of the
\* leaves under it
RECURSIVE Covered(_)
Covered(k) ==
  IF IsLeaf(k)
  THEN {i \in ObjIdxs : InRange(k, i)} \ (IF k = bvh.root THEN InfiniteObjs ELSE {})
  ELSE Covered(NodeAt(k).children[1]) \cup Covered(NodeAt(k).children[2])

\* the box around the objects of a set of indices
RECURSIVE UnionBox(_)
UnionBox(S) ==
  IF S = {} THEN AabbEmpty
  ELSE LET i == CHOOSE j \in S : TRUE
       IN  AabbExtend(UnionBox(S \ {i}), ObjAabb(GetObject(bvh, i)))

\* the SAH cost of cutting a slice into the objects L in front and R behind
SahCost(L, R) ==
  AabbArea(UnionBox(L)) * Cardinality(L) + AabbArea(UnionBox(R)) * Cardinality(R)

\* a split position of the slice S sorted on an axis: no object in front has
\* a larger key than an object behind
SplitPositions(S, axis) ==
  {L \in SUBSET S :
     /\ L # {} /\ L # S
     /\ \A i \in L, j \in S \ L :
          Key(ObjAabb(GetObject(bvh, i)), axis) <= Key(ObjAabb(GetObject(bvh, j)), axis)}

\* some split position costs strictly less than leaving the slice whole
SplitPays(S) ==
  \E axis \in Axes : \E L \in SplitPositions(S, axis) :
    SahCost(L, S \ L) < AabbArea(UnionBox(S)) * Cardinality(S)

\* C18: build_node splits a node only if it covers more than 4 objects and
\* some split position has a SAH cost strictly below the no-split cost
\* area(node) * n; in every other case the node becomes a leaf whose range is
\* the whole [lo, hi) (Bvh::new then widens the root's range over the objects
\* of infinite size it keeps in front of lo).
C18_SplitsOnlyWhenItPays ==
  pc = "built" =>
    \A k \in NodeIdxs :
      IF Cardinality(Covered(k)) > 4 /\ SplitPays(Covered(k))
      THEN TRUE
      ELSE /\ IsLeaf(k)
           /\ Covered(k) \cup (IF k = bvh.root THEN InfiniteObjs ELSE {}) =
                {i \in ObjIdxs : InRange(k, i)}
           /\ \A i, j \in Covered(k) : \A m \in i..j : m \in Covered(k)

\* A node over five objects that was split, beside a leaf.
C18_Witness ==
  /\ pc = "built"
  /\ ~IsLeaf(bvh.root)
  /\ Cardinality(Covered(bvh.root)) = 5
  /\ SplitPays(Covered(bvh.root))

\* More than four objects that no split position makes cheaper: a leaf.
C18_WitnessNoGain ==
  /\ pc = "built"
  /\ IsLeaf(bvh.root)
  /\ Cardinality(Covered(bvh.root)) > 4
  /\ ~SplitPays(Covered(bvh.root))

(***************************************************************************)
(* The recursion of trace_ray                                              *)
(***************************************************************************)
\* the primary invocation has returned
Finished == pc = "return" /\ stack = <<>>

\* an invocation calls trace_ray
Calls == pc = "call" /\ pc' = "call"

\* the invocations that wait for the call they made
Waiting == Len(stack)

\* what is left of the recursion: the invocations that may still begin and
\* those that have to return, or only the latter once the chain returns
Remaining ==
  IF pc = "call" THEN 2 * (parameters.ray_depth + 1) - cur.calls + 1 ELSE Waiting

\* C19: every trace_ray invocation makes at most one recursive call, always
\* with depth + 1, so the recursion is a chain that ends after at most
\* ray_depth + 1 invocations: no invocation calls again once its call has
\* returned, and every step takes the recursion closer to its end.
C19_OneCallChain ==
  /\ [][/\ Calls => /\ cur'.depth = cur.depth + 1
                    /\ cur'.calls = cur.calls + 1
                    /\ stack' = <<Frame(cur, Head(stack').hit, Head(stack').branch,
                                        Head(stack').new_dir, Head(stack').pdf)>> \o stack
        /\ ~Calls => cur'.calls = cur.calls
        /\ pc = "return" => pc' = "return" /\ Len(stack') = Len(stack) - 1]_vars
  /\ [](/\ cur.calls <= parameters.ray_depth + 1
        /\ pc = "call" => cur.calls = Waiting + 1
        /\ Remaining >= 0)
  /\ [][Remaining' < Remaining]_vars

\* The chain at its full length: ray_depth + 1 invocations, the last one at
\* the depth cap, and all of them returned.
C19_Witness ==
  /\ Finished
  /\ parameters.ray_depth = MaxDepth
  /\ cur.calls = MaxDepth + 1

(***************************************************************************)
(* The radiance trace_ray returns at a Dielectric hit                      *)
(***************************************************************************)
\* the invocation on top of the stack waits in calc_dielectric_color
DielectricWaits ==
  stack # <<>> /\ Head(stack).branch \in {"refracted", "reflected"}

\* the ray the waiting invocation traced entered the medium by refraction
EnteredMedium ==
  Head(stack).branch = "refracted" /\ ~Head(stack).hit.rec.is_inside

\* C20: at a Dielectric hit the radiance L of the traced ray is multiplied by
\* the material's colour C exactly when the refracted ray was the one traced
\* and is_inside is false; on reflection and on refraction from inside it is
\* left as it is; the emission E is added in all cases.
C20_DielectricRadiance ==
  [][(Returned /\ DielectricWaits) =>
       LET material == HitMaterial(scene, Head(stack).hit)
           C == material.color
           L == ret
           scaled == <<C[1] * L[1], C[2] * L[2], C[3] * L[3]>>
       IN  /\ material.material_type = "Dielectric"
           /\ ret' = VAdd(IF EnteredMedium THEN scaled ELSE L, material.emission)
    ]_vars

\* A ray refracted into tinted, emissive glass has come back with a radiance
\* the tint changes.
C20_Witness ==
  /\ Returned
  /\ DielectricWaits
  /\ EnteredMedium
  /\ HitMaterial(scene, Head(stack).hit).emission # Zeros
  /\ ret # Zeros
  /\ CMul(ret, HitMaterial(scene, Head(stack).hit).color) # ret

\* The same for a ray refracted out of the glass.
C20_WitnessInside ==
  /\ Returned
  /\ DielectricWaits
  /\ Head(stack).branch = "refracted"
  /\ Head(stack).hit.rec.is_inside
  /\ CMul(ret, HitMaterial(scene, Head(stack).hit).color) # ret

\* The same for a reflected ray.
C20_WitnessReflected ==
  /\ Returned
  /\ DielectricWaits
  /\ Head(stack).branch = "reflected"
  /\ ~Head(stack).hit.rec.is_inside
  /\ CMul(ret, HitMaterial(scene, Head(stack).hit).color) # ret

\* The primary ray has come back from glass it entered: tinted radiance plus
\* emission.
C20_WitnessReturned ==
  /\ Returned
  /\ stack = <<>>
  /\ cur.queried
  /\ Found # None
  /\ HitMaterial(scene, Unwrap(Found)).material_type = "Dielectric"
  /\ ret[1] > ret[2]

(***************************************************************************)
(* The Diffuse branch and the hemisphere of the normal                     *)
(***************************************************************************)
\* the sampled direction does not point into the hemisphere of the normal
BelowHorizon(new_dir) == Dot(new_dir, Unwrap(Found).rec.n) <= 0

\* C21: in the Diffuse branch, when the sampled direction d' has
\* d' . n <= 0, d' . n = 0 included, the incoming radiance is zero and no
\* secondary ray is traced (nor the PDF used): the invocation returns the
\* emission alone without calling trace_ray.
C21_NoRayAtOrBelowHorizon ==
  [][(DrawsDiffuse /\ BelowHorizon(DrawnSample.new_dir)) =>
       /\ pc' = "return"
       /\ stack' = stack
       /\ ret' = HitMaterial(scene, Unwrap(Found)).emission
    ]_vars

(***************************************************************************)
(* The surface sampler of a box                                            *)
(***************************************************************************)
\* p is a point of the face of the box on the given side of the given axis
OnFace(sizes, p, axis, side) ==
  /\ p[axis] = side * sizes[axis]
  /\ \A j \in Axes : -sizes[j] <= p[j] /\ p[j] <= sizes[j]

\* C24: the box surface sampler picks one of the six faces +-X, +-Y, +-Z,
\* each of them reachable (with a probability proportional to its area), and
\* returns a point of that face: the face's coordinate is + or - the
\* half-size and the two others lie within their half-sizes.
C24_SixFacesSampled ==
  pc = "sampled" =>
    /\ \E axis \in Axes, side \in {-1, 1} : OnFace(input.sizes, answer.p, axis, side)
    /\ \A axis \in Axes, side \in {-1, 1} :
         \E x \in AreaDraws(input.sizes), flip \in BOOLEAN, u \in CoordDraws(input.sizes) :
           OnFace(input.sizes, BoxSample(input.sizes, x, flip, u), axis, side)

(***************************************************************************)
(* The mixture MIS samples and the density it reports                      *)
(***************************************************************************)
MisDone == pc = "mis_done"

\* alpha * pdf_Cosine + (1 - alpha) * pdf_ToLight, with alpha = 1 without
\* lights and 1/2 with lights
CosineMixture ==
  IF input.lights = <<>>
  THEN [per_pi |-> <<CosinePdf(input.n, answer.d).num, 1>>, plain |-> <<0, 1>>,
        infinite |-> FALSE]
  ELSE Mixture(CosinePdf(input.n, answer.d), answer.to_light_pdf)

\* C22: MIS draws its direction from Cosine(n) with probability alpha = 0.5
\* and from ToLight(p) otherwise, with alpha = 1 when there are no lights,
\* and the PDF it reports for the direction is
\* alpha * pdf_Cosine + (1 - alpha) * pdf_ToLight: the mixture of the same
\* two strategies and of the same alpha it samples with.
C22_MixtureOfCosineAndToLight ==
  MisDone =>
    /\ answer.sampler \in {"Cosine::sample", "ToLigth::sample"}
    /\ input.lights = <<>> => answer.sampler = "Cosine::sample"
    /\ answer.pdf = CosineMixture

\* C23: Uniform.pdf(n, d) is 1 / (2 pi) when d . n > 0 and 0 for every
\* direction with d . n <= 0.
C23_UniformPdfOfHemisphere ==
  MisDone =>
    answer.uniform_pdf =
      IF Dot(answer.d, input.n) > 0 THEN [num |-> 1, den |-> 2, per_pi |-> TRUE]
      ELSE [num |-> 0, den |-> 1, per_pi |-> TRUE]

(***************************************************************************)
(* The distance intersect returns                                          *)
(***************************************************************************)
\* the point q in the frame of the figure
LocalPoint(obj, q) == MatVec(Transpose(obj.rotation), VSub(q, obj.position))

\* the point q lies on the surface of the figure (the edges of the model's
\* triangle are at right angles)
OnSurface(obj, q) ==
  LET l == LocalPoint(obj, q)
      w == VSub(l, obj.v)
  IN  CASE obj.kind = "plane" -> Dot(l, obj.normal) = 0
        [] obj.kind = "box" ->
             /\ \A i \in Axes : FAbs(l[i]) <= obj.sizes[i]
             /\ \E i \in Axes : FAbs(l[i]) = obj.sizes[i]
        [] obj.kind = "tri" ->
             /\ Dot(w, Cross(obj.edge1, obj.edge2)) = 0
             /\ Dot(w, obj.edge1) >= 0
             /\ Dot(w, obj.edge2) >= 0
             /\ Dot(w, obj.edge1) * Length2(obj.edge2)
                  + Dot(w, obj.edge2) * Length2(obj.edge1)
                  <= Length2(obj.edge1) * Length2(obj.edge2)

Intersected == pc = "intersected"

\* C25: for every primitive kind, intersect returns either no hit or the
\* smallest strictly positive t at which the ray meets the surface; t = 0
\* (ray origin on the surface) is never returned as a hit.
C25_SmallestPositiveT ==
  (Intersected /\ answer # None) =>
    LET t == Unwrap(answer).t
    IN  /\ IsFinite(t)
        /\ t > 0
        /\ OnSurface(input.obj, RayAt(input.ray, t))
        /\ \A s \in 1..(t - 1) : ~OnSurface(input.obj, RayAt(input.ray, s))

(***************************************************************************)
(* The lights of a scene                                                   *)
(***************************************************************************)
SceneBuilt == pc = "scene"

\* the primitives of the builder whose material emits
EmissiveIdxs ==
  {i \in 1..Len(input) : Length2(Materials[input[i].material_idx + 1].emission) > 0}

\* how many of the entries of a list of the given indices hold the figure
HoldersOf(figure, list, idxs) ==
  Cardinality({i \in idxs : GeometryOf(list[i]) = figure})

\* C26: build_scene puts into the light BVH exactly one copy of the
\* triangle of every primitive whose material has |emission|^2 > 0 and
\* nothing else, so the number of lights equals the number of emissive
\* primitives, and building or permuting the primary BVH does not change the
\* light set.
C26_LightsAreEmissivePrimitives ==
  SceneBuilt =>
    LET lights == scene.lights_bvh.objects
        prims == scene.bvh.objects
    IN  /\ Len(lights) = Cardinality(EmissiveIdxs)
        /\ \A figure \in {GeometryOf(prim) : prim \in TracePrims} :
             /\ HoldersOf(figure, lights, 1..Len(lights)) =
                  HoldersOf(figure, input, EmissiveIdxs)
             /\ HoldersOf(figure, lights, 1..Len(lights)) =
                  HoldersOf(figure, prims,
                            {i \in 1..Len(prims) :
                               Length2(MaterialOf(scene.materials, prims[i]).emission) > 0})

\* A scene of emissive and other primitives whose primary BVH holds them in
\* another order than the builder did.
C26_Witness ==
  /\ SceneBuilt
  /\ scene.bvh.objects # input
  /\ EmissiveIdxs # {}
  /\ Cardinality(EmissiveIdxs) < Len(input)
  /\ Len(scene.lights_bvh.objects) = Cardinality(EmissiveIdxs)

(***************************************************************************)
(* The object array of a hierarchy                                         *)
(***************************************************************************)
\* how many entries of a list hold the object
Copies(obj, list) == Cardinality({i \in 1..Len(list) : list[i] = obj})

\* the two lists hold the same objects, each as many times
SameObjects(a, b) ==
  /\ Len(a) = Len(b)
  /\ \A obj \in Catalog : Copies(obj, a) = Copies(obj, b)

\* C27: Bvh::new only permutes the object array: the stored objects are the
\* same multiset as the input, none lost or duplicated, and no query changes
\* the array or the nodes afterwards, so an index returned by intersect
\* keeps denoting the same object.
C27_ObjectsOnlyPermuted ==
  /\ [](Built => SameObjects(bvh.objects, input))
  /\ [][Built => bvh' = bvh]_vars
  /\ []((pc = "queried" /\ answer # None) =>
          /\ Unwrap(answer).idx \in ObjIdxs
          /\ Intersect(GetObject(bvh, Unwrap(answer).idx), query)
               = Some(Unwrap(answer).rec))

\* A query has returned the index of an object that Bvh::new moved.
C27_Witness ==
  /\ pc = "queried"
  /\ answer # None
  /\ bvh.objects # input
  /\ ~IsLeaf(bvh.root)
  /\ GetObject(bvh, Unwrap(answer).idx) # input[Unwrap(answer).idx + 1]

(***************************************************************************)
(* The objects without a finite AABB                                       *)
(***************************************************************************)
\* C28: objects whose AABB is infinite (planes) are kept in the root node's
\* own range, take no part in SAH splitting (no other node holds them), and
\* are tested against every ray by both the nearest-hit and the
\* enumerate-all traversal, never skipped by an AABB test.
C28_PlanesAtRootAlwaysTested ==
  /\ pc \in {"built", "queried", "queried_all"} =>
       \A i \in InfiniteObjs :
         /\ InRange(bvh.root, i)
         /\ \A k \in NodeIdxs \ {bvh.root} : ~InRange(k, i) /\ i \notin Covered(k)
  /\ pc = "queried" =>
       \A i \in InfiniteObjs :
         LET hit == Intersect(GetObject(bvh, i), query)
         IN  (hit # None /\ IsFinite(Unwrap(hit).t)) =>
               /\ answer # None
               /\ Unwrap(answer).rec.t <= Unwrap(hit).t
  /\ QueriedAll =>
       \A i \in InfiniteObjs :
         /\ Len(CallsFor(i)) = CallsDue(i)
         /\ CallsDue(i) > 0 =>
              Some(CallsFor(i)[1].rec) = Intersect(GetObject(bvh, i), query)

\* A plane under a root with children is the nearest hit of a ray that
\* misses the boxes of both children.
C28_Witness ==
  /\ pc = "queried"
  /\ ~IsLeaf(bvh.root)
  /\ answer # None
  /\ Unwrap(answer).idx \in InfiniteObjs
  /\ IsInf(AabbIntersect(NodeAt(NodeAt(bvh.root).children[1]).aabb, query))
  /\ IsInf(AabbIntersect(NodeAt(NodeAt(bvh.root).children[2]).aabb, query))

\* The enumeration has called back for a plane under a root with children.
C28_WitnessAll ==
  /\ QueriedAll
  /\ ~IsLeaf(bvh.root)
  /\ \E i \in InfiniteObjs : Len(CallsFor(i)) > 0

\* A plane in the range of a root that is a leaf.
C28_WitnessLeaf ==
  /\ pc = "queried"
  /\ IsLeaf(bvh.root)
  /\ Len(input) > 1
  /\ answer # None
  /\ Unwrap(answer).idx \in InfiniteObjs
  /\ input[1] # ObjP

(***************************************************************************)
(* The size of the hierarchy                                               *)
(***************************************************************************)
\* Bvh::dfs: the depth of the tree under the node k, 1 for a leaf
RECURSIVE TreeDepth(_)
TreeDepth(k) ==
  IF IsLeaf(k) THEN 1
  ELSE LET l == TreeDepth(NodeAt(k).children[1])
           r == TreeDepth(NodeAt(k).children[2])
       IN  (IF l > r THEN l ELSE r) + 1

\* S is [lo, hi) for some lo < hi
IsRange(S) ==
  /\ S # {}
  /\ \A i, j \in S : \A m \in i..j : m \in S

\* the two children of every node that was split cover [lo, split) and
\* [split, hi), both non-empty and smaller than [lo, hi)
SplitsShrink ==
  \A k \in NodeIdxs :
    ~IsLeaf(k) =>
      LET L == Covered(NodeAt(k).children[1])
          R == Covered(NodeAt(k).children[2])
      IN  /\ IsRange(L) /\ IsRange(R) /\ IsRange(L \cup R)
          /\ \A i \in L, j \in R : i < j
          /\ Cardinality(L) < Cardinality(Covered(k))
          /\ Cardinality(R) < Cardinality(Covered(k))

\* C29 as stated: Bvh::new terminates for every finite object list: every
\* split gives its two children the non-empty contiguous ranges [lo, split)
\* and [split, hi), both strictly smaller than the parent's range, so the
\* recursion depth is at most n and the tree has at most 2n - 1 nodes.
C29_AtMostTwoNMinusOneNodes ==
  pc = "built" =>
    /\ SplitsShrink
    /\ TreeDepth(bvh.root) <= Len(input)
    /\ Len(bvh.nodes) <= 2 * Len(input) - 1

\* the larger of 1 and m
AtLeastOne(m) == IF m < 1 THEN 1 ELSE m

\* C29: Bvh::new terminates for every finite object list: every split gives
\* its two children the non-empty contiguous ranges [lo, split) and
\* [split, hi), both strictly smaller than the parent's range, so the tree
\* has a depth of at most max(1, n) and at most max(1, 2n - 1) nodes: an
\* empty list gives the root alone.
C29_SplitsShrinkTreeBounded ==
  pc = "built" =>
    /\ SplitsShrink
    /\ TreeDepth(bvh.root) <= AtLeastOne(Len(input))
    /\ Len(bvh.nodes) <= AtLeastOne(2 * Len(input) - 1)

\* A hierarchy whose root was split and one of whose children was split
\* again.
C29_Witness ==
  /\ pc = "built"
  /\ TreeDepth(bvh.root) = 3
  /\ Len(bvh.nodes) = 5

\* The hierarchy of the empty list: the root alone.
C29_WitnessEmpty ==
  /\ pc = "built"
  /\ input = <<>>
  /\ Len(bvh.nodes) = 1

(***************************************************************************)
(* The split build_node costs and the split its partition makes            *)
(***************************************************************************)
\* the boxes of the root's slice as the loop over the axes has sorted them
\* when it scans the given axis
RECURSIVE SortedAt(_, _)
SortedAt(aabbs, axis) ==
  IF axis = 0 THEN aabbs ELSE SortByKey(SortedAt(aabbs, axis - 1), axis)

\* the split build_node found best for the root
RootBest ==
  BestSplit(Aabbs(input), 1,
            [quality |-> FMul(AabbArea(NodeAabb(Aabbs(input))), Len(input)),
             axis |-> 1, value |-> INF])

\* the cost of the split position i of a sorted list
CostAt(sorted, i) ==
  Quality(Extensions(sorted, Len(sorted)), Extensions(Reversed(sorted), Len(sorted)), i)

\* the split position that was costed as the best: the first one of the
\* chosen axis whose cost is the minimum
RootPosition ==
  LET sorted == SortedAt(Aabbs(input), RootBest.axis)
  IN  CHOOSE i \in 0..(Len(sorted) - 1) :
        /\ CostAt(sorted, i) = RootBest.quality
        /\ \A j \in 0..(i - 1) : CostAt(sorted, j) # RootBest.quality

\* how many entries of a list of boxes are the box
BoxCopies(aabb, list) == Cardinality({k \in 1..Len(list) : list[k] = aabb})

\* C30: when build_node splits a node, the left child receives exactly the
\* first i objects in the order sorted by min + max on the chosen axis,
\* where i is the split position whose SAH cost was minimal; the partition
\* realises the split that was costed, also when several objects share the
\* same key.
C30_PartitionRealisesCostedSplit ==
  (pc = "built" /\ ~IsLeaf(bvh.root)) =>
    LET sorted == SortedAt(Aabbs(input), RootBest.axis)
        left == Covered(NodeAt(bvh.root).children[1])
        held == [k \in 1..Cardinality(left) |-> ObjAabb(bvh.objects[k])]
    IN  /\ left = 0..(RootPosition - 1)
        /\ \A aabb \in {ObjAabb(obj) : obj \in SplitCatalog} :
             BoxCopies(aabb, held) = BoxCopies(aabb, SubSeq(sorted, 1, RootPosition))
====
